---- MODULE Spec2Model ----
(***************************************************************************)
(* Model of the batch orchestrator of runway_slim.py                       *)
(* (RunwayMLSlim.process_all_scenes and the procedures it calls): scene    *)
(* derivation from the job description, the per-scene skip / image /       *)
(* workflow / save loop, the progress file on disk, the output directory,  *)
(* and the process being killed and run again.                             *)
(*                                                                         *)
(* The except branch of the loop body (lines 2227-2230) has no action:     *)
(* _process_single_scene_with_data and _save_progress catch every          *)
(* Exception themselves, so nothing inside the try raises one.  Writes to  *)
(* the file system succeed unless the process is killed.  The output       *)
(* directory changes between runs only, never during one.                  *)
(*                                                                         *)
(* The procedures are also followed on their own, each in a specification  *)
(* of its own over its own variables: the derivation loop (SpecDerive),    *)
(* find_element_safe (SpecLocate), _determine_video_duration               *)
(* (SpecDuration), the calls of _process_single_scene_with_data on one     *)
(* object, step by step (SpecScene), click_generate_button (SpecGenerate), *)
(* wait_for_generation_and_download with _download_generated_video         *)
(* (SpecWait, and SpecWaitLive with the fairness of a running              *)
(* interpreter), the choice of the download control (SpecControl),         *)
(* check_session_health and recover_session (SpecSession),                 *)
(* enter_motion_prompt (SpecPrompt), two processes running the batch on    *)
(* one output directory (SpecConcurrent), _determine_video_duration as a   *)
(* function of the text of its scene_id (SpecPolicy) and the lookup of the *)
(* source image of a work item (SpecImage).                                *)
(***************************************************************************)
EXTENDS Integers, Sequences, FiniteSets, TLC

(***************************************************************************)
(* Bounds of the model.                                                    *)
(***************************************************************************)
MaxScenes == 2

MaxEvents == 1

MaxRuns == 2

MaxDeriveEvents == 3

MaxSelectors == 3

WaitPolls == 1

MaxNarration == 130

MaxCalls == 2

\* the download controls on a page
MaxControls == 3

\* the characters of a motion description
MaxText == 2

(***************************************************************************)
(* Program constants.                                                      *)
(***************************************************************************)
\* _determine_video_duration: "default_duration = 5"
default_duration == 5

\* "if narration_duration <= 6.0", in tenths of a second
ShortNarration == 60

\* "elif narration_duration <= 9.0", in tenths of a second
MediumNarration == 90

\* _process_single_scene_with_data: "for attempt in range(3)"
VideoModeAttempts == 3

\* process_all_scenes: "if file_size > 100000"
MinViableSize == 100000

\* wait_for_generation_and_download: max_wait_time, check_interval
max_wait_time == 600

check_interval == 10

\* the value of event_index of a regular scene (None in the source)
NoneIdx == -1

\* os.path.exists(video_file) is false
NoFile == -1

(***************************************************************************)
(* List helpers (Python list semantics).                                   *)
(***************************************************************************)
InList(x, l) == \E k \in 1..Len(l) : l[k] = x

ToSet(l) == {l[k] : k \in 1..Len(l)}

\* list.remove(x): removes the first occurrence only
RECURSIVE ListRemove(_, _)
ListRemove(l, x) ==
    IF l = <<>> THEN <<>>
    ELSE IF Head(l) = x THEN Tail(l)
    ELSE <<Head(l)>> \o ListRemove(Tail(l), x)

(***************************************************************************)
(* Scene ids: f"scene_{i}" and f"scene_{i}_event_{j}", as the sequence of  *)
(* their tokens, numbers in decimal digits.                                *)
(***************************************************************************)
DigitChar == <<"0", "1", "2", "3", "4", "5", "6", "7", "8", "9">>

RECURSIVE Str(_)
Str(n) == IF n < 10 THEN <<DigitChar[n + 1]>>
          ELSE Str(n \div 10) \o <<DigitChar[(n % 10) + 1]>>

SceneId(i) == <<"scene_">> \o Str(i)

EventIdMut(i, j) == <<"scene_">> \o Str(i)

\* f"scene_{i}_event_{j}", line 2102
EventId(i, j) == <<"scene_">> \o Str(i) \o <<"_event_">> \o Str(j)

(***************************************************************************)
(* The job description: scene_directions, a list of scenes.  A scene has a *)
(* scene_desc that is null or a text and a (possibly empty or absent)      *)
(* events list, of which only the length matters here.                     *)
(***************************************************************************)
SceneData == [scene_desc : {"null", "text"}, events : 0..MaxEvents]

Jobs == UNION {[1..n -> SceneData] : n \in 0..MaxScenes}

SceneItemsMut(i, scene_data) ==
    IF scene_data.events > 0
    THEN [j \in 1..scene_data.events |->
             [scene_index |-> i, event_index |-> j - 1,
              scene_id |-> EventId(i, j - 1)]]
    ELSE IF scene_data.scene_desc # "null"
         THEN <<[scene_index |-> i, event_index |-> NoneIdx,
                 scene_id |-> SceneId(i)]>>
         ELSE <<>>

\* the work items of scene i: lines 2095-2116
SceneItems(i, scene_data) ==
    IF scene_data.scene_desc # "null"
    THEN IF scene_data.events > 0
         THEN [j \in 1..scene_data.events |->
                 [scene_index |-> i, event_index |-> j - 1,
                  scene_id |-> EventId(i, j - 1)]]
         ELSE <<[scene_index |-> i, event_index |-> NoneIdx,
                 scene_id |-> SceneId(i)]>>
    ELSE <<>>

\* the loop of lines 2093-2116 over enumerate(scenes); scene k of the list
\* has index k - 1
RECURSIVE DeriveFrom(_, _)
DeriveFrom(scenes, k) ==
    IF k > Len(scenes) THEN <<>>
    ELSE SceneItems(k - 1, scenes[k]) \o DeriveFrom(scenes, k + 1)

ProcessableScenes(scenes) == DeriveFrom(scenes, 1)

SceneIdsOf(scenes) == {ProcessableScenes(scenes)[k].scene_id :
                          k \in 1..Len(ProcessableScenes(scenes))}

(***************************************************************************)
(* The scene workflow, _process_single_scene_with_data, as a function of   *)
(* the outcomes of the steps it calls (steps) and of what the page shows   *)
(* while it waits for the generation (page).                               *)
(***************************************************************************)
Sizes == {MinViableSize - 1, MinViableSize, MinViableSize + 1}

\* what the remote page and the download folder show during the wait:
\*   completion        a completion indicator is located
\*   error             an error indicator is located
\*   download_element  a download control is located
\*   click_ok          one of the click mechanisms works
\*   new_file          size of the newly-appeared video (NoFile: none appears)
\*   video_src         the page has a <video> element with a src
Blank == [completion |-> FALSE, error |-> FALSE, download_element |-> FALSE,
          click_ok |-> FALSE, new_file |-> NoFile, video_src |-> FALSE]

Ready == [Blank EXCEPT !.completion = TRUE, !.download_element = TRUE,
                       !.click_ok = TRUE]

Pages ==
    {[Ready EXCEPT !.new_file = f, !.error = e] :
        f \in Sizes \cup {NoFile}, e \in BOOLEAN}
    \cup {[Ready EXCEPT !.click_ok = FALSE]}
    \cup {[Ready EXCEPT !.download_element = FALSE, !.video_src = v] :
             v \in BOOLEAN}
    \cup {Blank, [Blank EXCEPT !.error = TRUE],
          [Blank EXCEPT !.video_src = TRUE]}

NoDownload == [ok |-> FALSE, file |-> NoFile]

\* _download_generated_video: ok is the returned value, file the size of the
\* file moved to {scene_id}.mp4 (NoFile: nothing was moved)
DownloadGeneratedVideo(page) ==
    IF page.download_element
    THEN IF ~page.click_ok THEN NoDownload
         ELSE IF page.new_file # NoFile
              THEN [ok |-> TRUE, file |-> page.new_file]
              ELSE NoDownload
    ELSE IF page.video_src
         THEN [ok |-> TRUE, file |-> NoFile]
         ELSE NoDownload

\* wait_for_generation_and_download: the polling loop from elapsed_time on,
\* then the final search
RECURSIVE WaitFrom(_, _)
WaitFrom(page, elapsed_time) ==
    IF elapsed_time < max_wait_time
    THEN IF page.completion /\ DownloadGeneratedVideo(page).ok
         THEN DownloadGeneratedVideo(page)
         ELSE IF page.error THEN NoDownload
         ELSE WaitFrom(page, elapsed_time + check_interval)
    ELSE IF page.completion /\ DownloadGeneratedVideo(page).ok
         THEN DownloadGeneratedVideo(page)
         ELSE NoDownload

WaitForGenerationAndDownload(page) == WaitFrom(page, 0)

\* outcomes of the other steps of the workflow
StepNames == {"healthy", "recovered", "login", "select_asset", "upload",
              "aspect_ratio", "motion_prompt", "duration", "generate", "concat"}

AllOk == [healthy |-> TRUE, recovered |-> TRUE, login |-> TRUE,
          video_mode |-> 1, select_asset |-> TRUE, upload |-> TRUE,
          aspect_ratio |-> TRUE, motion_prompt |-> TRUE, duration |-> TRUE,
          generate |-> TRUE, concat |-> TRUE]

\* video_mode: the attempt at which _force_video_mode succeeds (4: never)
StepOutcomes ==
    {[AllOk EXCEPT ![n] = FALSE] : n \in StepNames}
    \cup {[AllOk EXCEPT !.video_mode = a] : a \in 1..4}
    \cup {[AllOk EXCEPT !.healthy = FALSE, !.recovered = FALSE],
          [AllOk EXCEPT !.healthy = FALSE, !.recovered = FALSE, !.login = FALSE]}

\* the steps before the wait that abort the scene: lines 2364-2431
FatalStepsOk(steps) ==
    /\ (steps.healthy \/ steps.recovered \/ steps.login)
    /\ steps.video_mode <= 3
    /\ steps.upload
    /\ steps.motion_prompt
    /\ steps.generate

\* the returned value and the file the workflow leaves as {scene_id}.mp4
ProcessSingleSceneWithData(steps, page) ==
    IF ~FatalStepsOk(steps) THEN [success |-> FALSE, file |-> NoFile]
    ELSE [success |-> WaitForGenerationAndDownload(page).ok,
          file |-> WaitForGenerationAndDownload(page).file]

FileIsValidMut(file_size) == file_size >= MinViableSize

\* the file check of the skip test: "file_size > 100000"
FileIsValid(file_size) == file_size > MinViableSize

(***************************************************************************)
(* State.                                                                  *)
(***************************************************************************)
VARIABLES
    json_data,           \* scene_directions of the job file (read-only)
    image_files,         \* scene ids with a source image in the job directory
    progress_file,       \* progress.json on disk
    output_dir,          \* size of {scene_id}.mp4 in the output directory
    pc,                  \* position of the process in process_all_scenes
    processable_scenes,  \* the derived work items
    progress_data,       \* the record returned by _load_progress
    completed_scenes,    \* list, starts as progress_data["completed"]
    failed_scenes,       \* list
    results,             \* the report being built
    idx,                 \* loop index (0-based, as enumerate)
    attempted,           \* history: the calls of the workflow in this run
    delays,              \* history: the inter-scene delays of this run
    start_dir,           \* history: output_dir when the run started
    run_no,              \* history: number of runs started
    last_written,        \* history: document of the last save that finished
    prev                 \* history: how the previous process ended

batch_vars == <<json_data, image_files, progress_file, output_dir, pc,
                processable_scenes, progress_data, completed_scenes,
                failed_scenes, results, idx, attempted, delays, start_dir,
                run_no, last_written, prev>>

(***************************************************************************)
(* State of the procedures that are also followed on their own: the        *)
(* derivation loop, the locator and one call of the scene workflow.  The   *)
(* batch specification leaves these variables alone.                       *)
(***************************************************************************)
VARIABLES
    dv_scenes,           \* derivation: scene_directions being enumerated
    dv_i,                \* derivation: index i of enumerate(scenes)
    dv_items,            \* derivation: processable_scenes built so far
    selectors,           \* locator: per strategy, when its element is present
    lc_pc,               \* locator: position in find_element_safe
    lc_k,                \* locator: index of the strategy being waited for
    lc_clock,            \* locator: time since the call, in polls
    lc_start,            \* locator: time the current wait started
    lc_result,           \* locator: index of the strategy returned, or none
    lc_windows,          \* history: the wait windows of the strategies tried
    is_logged_in,        \* workflow: the flag self.is_logged_in
    wf_pc,               \* workflow: position in _process_single_scene_with_data
    wf_calls,            \* history: number of calls of the workflow
    wf,                  \* workflow: arguments and history of the current call
    narration,           \* duration policy: the narration file and its length
    dp_pc,               \* duration policy: position in _determine_video_duration
    selected_duration    \* duration policy: the value returned

derive_vars == <<dv_scenes, dv_i, dv_items>>

locate_vars == <<selectors, lc_pc, lc_k, lc_clock, lc_start, lc_result,
                 lc_windows>>

scene_vars == <<is_logged_in, wf_pc, wf_calls, wf>>

duration_vars == <<narration, dp_pc, selected_duration>>

VARIABLES
    gb_pc,               \* generate button: position in click_generate_button
    gb                   \* generate button: what the call has done so far

generate_vars == <<gb_pc, gb>>

VARIABLES
    wt_pc,               \* wait and download: position in the two functions
    wt                   \* wait and download: the locals and what was done

wait_vars == <<wt_pc, wt>>

VARIABLES
    dc_pc,               \* download control: before or after the selection
    dc_controls,         \* download control: the controls on the page
    dc_upscale_4k,       \* download control: self.upscale_4k
    dc_listing_fails,    \* download control: find_elements raises
    dc_clicked           \* download control: place of the control clicked

control_vars == <<dc_pc, dc_controls, dc_upscale_4k, dc_listing_fails,
                  dc_clicked>>

VARIABLES
    ss_pc,               \* session: position in check / recover
    browser,             \* session: the URL shown and whether the site
                         \*          still accepts the session
    ss                   \* session: what the call has done so far

session_vars == <<ss_pc, browser, ss>>

VARIABLES
    pr_pc,               \* motion prompt: position in enter_motion_prompt
    pr                   \* motion prompt: the argument and what was done

prompt_vars == <<pr_pc, pr>>

VARIABLES
    cc_job,              \* two runs: scene_directions of the job file
    cc_images,           \* two runs: scene ids with a source image
    cc_file,             \* two runs: progress.json of the shared directory
    cc_dir,              \* two runs: size of {scene_id}.mp4 in that directory
    cc_run,              \* two runs: per process, its position and locals
    cc_writer,           \* history: the process of the last finished save
    cc_saved             \* history: per process, the scene ids its saves
                         \*          have persisted as completed

concurrent_vars == <<cc_job, cc_images, cc_file, cc_dir, cc_run, cc_writer,
                     cc_saved>>

VARIABLES
    vd_scene_id,         \* duration by id: the scene_id argument, in characters
    vd_files,            \* duration by id: per scene index, what the search
                         \*                 for its narration file gives
    vd_raises,           \* duration by id: the search raises an exception
    vd_pc,               \* duration by id: position in the function
    vd_scene_index,      \* duration by id: the local scene_index
    vd_result            \* duration by id: the value returned

policy_vars == <<vd_scene_id, vd_files, vd_raises, vd_pc, vd_scene_index,
                 vd_result>>

VARIABLES
    im_scene_id,         \* source image: the scene_id of the work item
    im_dir,              \* source image: the png files of the job directory,
                         \*               from the oldest to the newest
    im_pc,               \* source image: position in lines 2172-2190
    im_matches,          \* source image: the list glob.glob returned
    im_path              \* source image: image_path

image_vars == <<im_scene_id, im_dir, im_pc, im_matches, im_path>>

vars == <<batch_vars, derive_vars, locate_vars, scene_vars, duration_vars,
          generate_vars, wait_vars, control_vars, session_vars, prompt_vars,
          concurrent_vars, policy_vars, image_vars>>

\* what the operations of one group never touch: every other group
non_batch_vars == <<derive_vars, locate_vars, scene_vars, duration_vars,
                    generate_vars, wait_vars, control_vars, session_vars,
                    prompt_vars, concurrent_vars, policy_vars, image_vars>>
non_derive_vars == <<batch_vars, locate_vars, scene_vars, duration_vars,
                     generate_vars, wait_vars, control_vars, session_vars,
                     prompt_vars, concurrent_vars, policy_vars, image_vars>>
non_locate_vars == <<batch_vars, derive_vars, scene_vars, duration_vars,
                     generate_vars, wait_vars, control_vars, session_vars,
                     prompt_vars, concurrent_vars, policy_vars, image_vars>>
non_scene_vars == <<batch_vars, derive_vars, locate_vars, duration_vars,
                    generate_vars, wait_vars, control_vars, session_vars,
                    prompt_vars, concurrent_vars, policy_vars, image_vars>>
non_duration_vars == <<batch_vars, derive_vars, locate_vars, scene_vars,
                       generate_vars, wait_vars, control_vars, session_vars,
                       prompt_vars, concurrent_vars, policy_vars, image_vars>>
non_generate_vars == <<batch_vars, derive_vars, locate_vars, scene_vars,
                       duration_vars, wait_vars, control_vars, session_vars,
                       prompt_vars, concurrent_vars, policy_vars, image_vars>>
non_wait_vars == <<batch_vars, derive_vars, locate_vars, scene_vars,
                   duration_vars, generate_vars, control_vars, session_vars,
                   prompt_vars, concurrent_vars, policy_vars, image_vars>>
non_control_vars == <<batch_vars, derive_vars, locate_vars, scene_vars,
                      duration_vars, generate_vars, wait_vars, session_vars,
                      prompt_vars, concurrent_vars, policy_vars, image_vars>>
non_session_vars == <<batch_vars, derive_vars, locate_vars, scene_vars,
                      duration_vars, generate_vars, wait_vars, control_vars,
                      prompt_vars, concurrent_vars, policy_vars, image_vars>>
non_prompt_vars == <<batch_vars, derive_vars, locate_vars, scene_vars,
                     duration_vars, generate_vars, wait_vars, control_vars,
                     session_vars, concurrent_vars, policy_vars, image_vars>>
non_concurrent_vars == <<batch_vars, derive_vars, locate_vars, scene_vars,
                         duration_vars, generate_vars, wait_vars,
                         control_vars, session_vars, prompt_vars,
                         policy_vars, image_vars>>
non_policy_vars == <<batch_vars, derive_vars, locate_vars, scene_vars,
                     duration_vars, generate_vars, wait_vars, control_vars,
                     session_vars, prompt_vars, concurrent_vars, image_vars>>
non_image_vars == <<batch_vars, derive_vars, locate_vars, scene_vars,
                    duration_vars, generate_vars, wait_vars, control_vars,
                    session_vars, prompt_vars, concurrent_vars, policy_vars>>

NoRecord == [completed |-> <<>>, failed |-> <<>>]

\* progress.json does not exist / holds an incomplete document / holds doc
Absent == [kind |-> "absent"]

Truncated == [kind |-> "truncated"]

Json(doc) == [kind |-> "json", doc |-> doc]

\* _load_progress: without a file, or with one that cannot be parsed, the
\* default document
LoadProgressMut(file) == NoRecord

\* _load_progress: the parsed document; without a file, or with one that
\* cannot be parsed, the default document
LoadProgress(file) ==
    IF file.kind = "json" THEN file.doc ELSE NoRecord

NoResults == [total_scenes |-> 0, completed |-> <<>>, failed |-> <<>>,
              skipped |-> <<>>, success |-> TRUE]

\* ended: "none" before the first run, else "returned", "error", "raised" or
\* "killed"; inflight: the scene id being handled when the process was
\* killed; recorded: the completed set of the last save that had finished;
\* completed: the completed list of the report; derived: the work items
NoPrev == [ended |-> "none", inflight |-> <<>>, recorded |-> {},
           completed |-> <<>>, derived |-> <<>>]

Running == {"loop", "process", "save", "save_write"}

NotRunning == {"idle", "returned", "error", "raised", "crashed"}

CurrentScene == processable_scenes[idx + 1]

SceneIds == ToSet([k \in 1..Len(processable_scenes) |->
                      processable_scenes[k].scene_id])

FailedIds == {results.failed[k].scene : k \in 1..Len(results.failed)}

AttemptedIds == {attempted[k].scene : k \in 1..Len(attempted)}

\* the derivation loop on its own has not been started
DeriveIdle ==
    /\ dv_scenes = <<>>
    /\ dv_i = 0
    /\ dv_items = <<>>

\* no call of find_element_safe is being followed
LocateIdle ==
    /\ selectors = <<>>
    /\ lc_pc = "idle"
    /\ lc_k = 0
    /\ lc_clock = 0
    /\ lc_start = 0
    /\ lc_result = 0
    /\ lc_windows = <<>>

\* get_narration_duration returned None, lines 2620-2630
NoDuration == -1

\* no narration file matched: narration_file_found stays None, line 2982
NoNarrationFile == [found |-> FALSE, length |-> NoDuration]

\* no call of _determine_video_duration is being followed
DurationIdle ==
    /\ narration = NoNarrationFile
    /\ dp_pc = "idle"
    /\ selected_duration = 0

\* no call of _process_single_scene_with_data is being followed
\*   scene         the arguments of the call that matter: what the scene data
\*                 holds under motion_desc, whether image_path exists,
\*                 is_first_scene, is_final_scene
\*   trace         the steps run so far, in the order they were run
\*   session       what the health check at the start led to
\*   video_mode    the values returned by the calls of _force_video_mode
\*   upload        value returned by access_upload_interface, and whether
\*                 the file was sent to a file input of the page
\*   aspect        outcome of select_aspect_ratio_16_9
\*   prompt        what enter_motion_prompt was given and did
\*   target        the value of _determine_video_duration
\*   generate      outcome of click_generate_button
\*   download      outcome of wait_for_generation_and_download
\*   video         size of {scene_id}.mp4 in the output directory
\*   clips         what create_concatenated_videos finds
\*   concatenated  the files create_concatenated_videos wrote
\*   result        the value returned by the call
NoCall == [started |-> FALSE,
           scene |-> [motion_desc |-> "text", image_exists |-> TRUE,
                      is_first_scene |-> FALSE, is_final_scene |-> FALSE],
           trace |-> <<>>,
           session |-> "none",
           video_mode |-> <<>>,
           upload |-> [ok |-> FALSE, supplied |-> FALSE],
           aspect |-> "none",
           prompt |-> "none",
           target |-> 0,
           generate |-> "none",
           download |-> "none",
           video |-> NoFile,
           clips |-> [media |-> FALSE, intro |-> FALSE, outro |-> FALSE],
           concatenated |-> {},
           result |-> "none"]

\* __init__, line 119: self.is_logged_in = False
SceneIdle ==
    /\ is_logged_in = FALSE
    /\ wf_pc = "idle"
    /\ wf_calls = 0
    /\ wf = NoCall

\* no call of click_generate_button is being followed
\*   found     find_element_safe located the generate control
\*   disabled  the control carried disabled / data-soft-disabled
\*   primary   generate_element.click(): not reached, issued, raised
\*   script    the execute_script click of the except branch, likewise
\*   raised    the statement group of the try that raised
\*   elapsed   the counter of the verification loop
\*   signal    the start signal that ended the verification
\*   result    the value returned
NoClick == [found |-> FALSE, disabled |-> FALSE, primary |-> "none",
            script |-> "none", raised |-> "none", elapsed |-> 0,
            signal |-> "none", result |-> "none"]

GenerateIdle ==
    /\ gb_pc = "idle"
    /\ gb = NoClick

\* what a poll of wait_for_generation_and_download finds on the page
NoPage == [completion |-> FALSE, error |-> FALSE]

\* no call of wait_for_generation_and_download is being followed
\*   upscale_4k      self.upscale_4k
\*   elapsed_time    the counter of the polling loop
\*   polls           the rounds of the polling loop that have ended
\*   phase           "loop" in the polling loop, "final" after it
\*   page            what the current poll finds: a completion indicator,
\*                   an error indicator
\*   attempted       _download_generated_video was called at this poll
\*   waited          the counter of the 4K wait loop
\*   elapsed         the counter of the download wait loop
\*   timed_out       a download wait loop has run out
\*   retriggered     the download control was clicked after that
\*   final_searches  the searches made after the polling loop
\*   file            {scene_id}.mp4 was moved to the output directory
\*   result          the value returned, or "raised"
NoWait == [upscale_4k |-> FALSE, elapsed_time |-> 0, polls |-> 0,
           phase |-> "loop", page |-> NoPage, attempted |-> FALSE,
           waited |-> 0, elapsed |-> 0, timed_out |-> FALSE,
           retriggered |-> FALSE, final_searches |-> 0, file |-> FALSE,
           result |-> "none"]

WaitIdle ==
    /\ wt_pc = "idle"
    /\ wt = NoWait

\* _download_generated_video is not selecting a control
ControlIdle ==
    /\ dc_pc = "idle"
    /\ dc_controls = <<>>
    /\ dc_upscale_4k = FALSE
    /\ dc_listing_fails = FALSE
    /\ dc_clicked = 0

\* a string, as the sequence of its characters
dashboard == <<"/">>

NoBrowser == [url |-> dashboard, authenticated |-> FALSE]

\* no call of check_session_health or recover_session is being followed
\*   op      the function called
\*   trace   the driver operations and health checks made, in their order
\*   checks  what each call of check_session_health saw and did
\*   raised  an exception reached the except of recover_session
\*   result  the value returned
NoSession == [op |-> "none", trace |-> <<>>, checks |-> <<>>,
              raised |-> FALSE, result |-> "none"]

SessionIdle ==
    /\ ss_pc = "idle"
    /\ browser = NoBrowser
    /\ ss = NoSession

\* no call of enter_motion_prompt is being followed
\*   motion_description  the argument
\*   found         find_element_safe located the prompt field
\*   entered_text  what the field held when it was read after send_keys
\*   content       what the field holds
\*   verified      the comparisons of the field with the argument
\*   scripts       the applications of the script that sets textContent
\*   raised        a driver call inside the try raised
\*   result        the value returned
NoPrompt == [motion_description |-> <<>>, found |-> FALSE,
             entered_text |-> <<>>, content |-> <<>>, verified |-> 0,
             scripts |-> 0, raised |-> FALSE, result |-> "none"]

PromptIdle ==
    /\ pr_pc = "idle"
    /\ pr = NoPrompt

\* a process that has not started process_all_scenes
\*   loaded   the record _load_progress returned
\*   own      history: the scene ids this run has completed itself
NoRun == [pc |-> "idle", idx |-> 0, loaded |-> NoRecord,
          processable_scenes |-> <<>>, completed_scenes |-> <<>>,
          failed_scenes |-> <<>>, own |-> {}]

\* no two runs on one output directory are being followed
ConcurrentIdle ==
    /\ cc_job = <<>>
    /\ cc_images = {}
    /\ cc_file = Absent
    /\ cc_dir = <<>>
    /\ cc_run = <<>>
    /\ cc_writer = 0
    /\ cc_saved = <<>>

\* no call of _determine_video_duration with a scene_id is being followed
PolicyIdle ==
    /\ vd_scene_id = <<>>
    /\ vd_files = <<>>
    /\ vd_raises = FALSE
    /\ vd_pc = "idle"
    /\ vd_scene_index = NoneIdx
    /\ vd_result = 0

\* no image lookup is being followed
NoImage == [scene |-> <<>>, suffix |-> <<>>]

ImageIdle ==
    /\ im_scene_id = <<>>
    /\ im_dir = <<>>
    /\ im_pc = "idle"
    /\ im_matches = {}
    /\ im_path = NoImage

Init ==
    /\ json_data \in Jobs
    /\ image_files \in SUBSET SceneIdsOf(json_data)
    /\ progress_file = Absent
    /\ output_dir = [s \in SceneIdsOf(json_data) |-> NoFile]
    /\ pc = "idle"
    /\ processable_scenes = <<>>
    /\ progress_data = NoRecord
    /\ completed_scenes = <<>>
    /\ failed_scenes = <<>>
    /\ results = NoResults
    /\ idx = 0
    /\ attempted = <<>>
    /\ delays = 0
    /\ start_dir = output_dir
    /\ run_no = 0
    /\ last_written = NoRecord
    /\ prev = NoPrev
    /\ DeriveIdle
    /\ LocateIdle
    /\ SceneIdle
    /\ DurationIdle
    /\ GenerateIdle
    /\ WaitIdle
    /\ ControlIdle
    /\ SessionIdle
    /\ PromptIdle
    /\ ConcurrentIdle
    /\ PolicyIdle
    /\ ImageIdle

\* the batch orchestrator is not running: the state of the batch variables in
\* the specifications of the single procedures
BatchIdle ==
    /\ json_data = <<>>
    /\ image_files = {}
    /\ progress_file = Absent
    /\ output_dir = <<>>
    /\ pc = "idle"
    /\ processable_scenes = <<>>
    /\ progress_data = NoRecord
    /\ completed_scenes = <<>>
    /\ failed_scenes = <<>>
    /\ results = NoResults
    /\ idx = 0
    /\ attempted = <<>>
    /\ delays = 0
    /\ start_dir = <<>>
    /\ run_no = 0
    /\ last_written = NoRecord
    /\ prev = NoPrev

ClearFailedMut(failed) == failed

\* lines 2129-2131: the failed list of the previous runs is dropped
ClearFailed(failed) == <<>>

(***************************************************************************)
(* process_all_scenes up to the loop: lines 2073-2139.                     *)
(***************************************************************************)
StartRun ==
    /\ pc \in NotRunning
    /\ run_no < MaxRuns
    /\ run_no' = run_no + 1
    /\ attempted' = <<>>
    /\ delays' = 0
    /\ start_dir' = output_dir
    /\ idx' = 0
    /\ prev' = IF pc \in {"idle", "crashed"} THEN prev
               ELSE [NoPrev EXCEPT !.ended = pc,
                                   !.recorded = ToSet(last_written.completed),
                                   !.completed = IF pc = "returned"
                                                 THEN results.completed
                                                 ELSE <<>>,
                                   !.derived = processable_scenes]
    /\ IF Len(json_data) = 0
       THEN /\ pc' = "error"
            /\ results' = [success |-> FALSE, error |-> "No scenes found"]
            /\ UNCHANGED <<processable_scenes, progress_data,
                           completed_scenes, failed_scenes>>
       ELSE /\ pc' = "loop"
            /\ processable_scenes' = ProcessableScenes(json_data)
            /\ progress_data' = LoadProgress(progress_file)
            /\ completed_scenes' = LoadProgress(progress_file).completed
            /\ failed_scenes' = ClearFailed(LoadProgress(progress_file).failed)
            /\ results' = [NoResults EXCEPT
                             !.total_scenes = Len(ProcessableScenes(json_data))]
    /\ UNCHANGED <<json_data, image_files, progress_file, output_dir,
                   last_written>>
    /\ UNCHANGED non_batch_vars

(***************************************************************************)
(* One iteration up to the call of the workflow: lines 2141-2190.          *)
(***************************************************************************)
SkipSceneMut(scene_id, completed, file_size) ==
    /\ file_size # NoFile
    /\ FileIsValid(file_size)

\* lines 2159-2164: the scene is honoured as completed
SkipScene(scene_id, completed, file_size) ==
    /\ InList(scene_id, completed)
    /\ file_size # NoFile
    /\ FileIsValid(file_size)

AfterSkipTestMut(scene_id, completed) == completed

\* lines 2165-2170: completed_scenes when the skip test did not skip
AfterSkipTest(scene_id, completed) ==
    IF InList(scene_id, completed) THEN ListRemove(completed, scene_id)
    ELSE completed

\* lines 2172-2186: os.path.exists(image_path)
ImageExists(scene_id) == scene_id \in image_files

SkipPositionMut == "save"

\* line 2164: "continue", the loop takes the next work item
SkipPosition == "loop"

NextIndexMut(i) == Len(processable_scenes)

NextIndexAgainMut(i) == i

\* "continue", or the end of the loop body: the loop goes on with the next
\* work item
NextIndex(i) == i + 1

VisitScene ==
    /\ pc = "loop"
    /\ idx < Len(processable_scenes)
    /\ LET scene_id == CurrentScene.scene_id IN
       IF SkipScene(scene_id, completed_scenes, output_dir[scene_id])
       THEN /\ results' = [results EXCEPT !.skipped = Append(@, scene_id)]
            /\ idx' = NextIndex(idx)
            /\ pc' = SkipPosition
            /\ UNCHANGED <<completed_scenes, failed_scenes>>
       ELSE /\ completed_scenes' = AfterSkipTest(scene_id, completed_scenes)
            /\ IF ~ImageExists(scene_id)
               THEN /\ results' = [results EXCEPT !.failed =
                          Append(@, [scene |-> scene_id,
                                     error |-> "Image not found"])]
                    /\ failed_scenes' = Append(failed_scenes, scene_id)
                    /\ idx' = NextIndex(idx)
                    /\ UNCHANGED pc
               ELSE /\ pc' = "process"
                    /\ UNCHANGED <<results, failed_scenes, idx>>
    /\ UNCHANGED <<json_data, image_files, progress_file, output_dir,
                   processable_scenes, progress_data, attempted, delays, start_dir,
                   run_no, last_written, prev>>
    /\ UNCHANGED non_batch_vars

(***************************************************************************)
(* The call of the workflow and the recording of its outcome:              *)
(* lines 2192-2212.                                                        *)
(***************************************************************************)
RecordOutcome(scene_id, r) ==
    /\ attempted' = Append(attempted, [scene |-> scene_id,
                                       success |-> r.success])
    /\ output_dir' = IF r.file # NoFile
                     THEN [output_dir EXCEPT ![scene_id] = r.file]
                     ELSE output_dir
    /\ IF r.success
       THEN /\ results' = [results EXCEPT !.completed = Append(@, scene_id)]
            /\ completed_scenes' = Append(completed_scenes, scene_id)
            /\ UNCHANGED failed_scenes
       ELSE /\ results' = [results EXCEPT !.failed =
                  Append(@, [scene |-> scene_id, error |-> "Processing failed"])]
            /\ failed_scenes' = Append(failed_scenes, scene_id)
            /\ UNCHANGED completed_scenes

ProcessScene ==
    /\ pc = "process"
    /\ \E steps \in StepOutcomes :
          IF FatalStepsOk(steps)
          THEN \E page \in Pages :
                  RecordOutcome(CurrentScene.scene_id,
                                ProcessSingleSceneWithData(steps, page))
          ELSE RecordOutcome(CurrentScene.scene_id,
                             ProcessSingleSceneWithData(steps, Blank))
    /\ pc' = "save"
    /\ UNCHANGED <<json_data, image_files, progress_file, processable_scenes,
                   progress_data, idx, delays, start_dir, run_no, last_written,
                   prev>>
    /\ UNCHANGED non_batch_vars

(***************************************************************************)
(* _save_progress, lines 2214-2220 and 2467-2473: open(progress_file, 'w') *)
(* empties the file, json.dump and the close write the document.           *)
(***************************************************************************)
ProgressDoc == [completed |-> completed_scenes, failed |-> failed_scenes,
                last_processed |-> CurrentScene.scene_id]

\* lines 2222-2225: "if idx < len(processable_scenes) - 1", then
\* time.sleep(10)
MoreScenes(i) == i < Len(processable_scenes) - 1

SaveProgressOpen ==
    /\ pc = "save"
    /\ progress_file' = Truncated
    /\ pc' = "save_write"
    /\ UNCHANGED <<json_data, image_files, output_dir, processable_scenes,
                   progress_data, completed_scenes, failed_scenes, results,
                   idx, attempted, delays, start_dir, run_no, last_written, prev>>
    /\ UNCHANGED non_batch_vars

SaveProgressDump ==
    /\ pc = "save_write"
    /\ progress_file' = Json(ProgressDoc)
    /\ last_written' = ProgressDoc
    /\ delays' = IF MoreScenes(idx) THEN delays + 1 ELSE delays
    /\ idx' = NextIndex(idx)
    /\ pc' = "loop"
    /\ UNCHANGED <<json_data, image_files, output_dir, processable_scenes,
                   progress_data, completed_scenes, failed_scenes, results,
                   attempted, start_dir, run_no, prev>>
    /\ UNCHANGED non_batch_vars

(***************************************************************************)
(* The final summary and the return: lines 2232-2241.  The success rate    *)
(* divides by len(processable_scenes).                                     *)
(***************************************************************************)
FinishRun ==
    /\ pc = "loop"
    /\ idx >= Len(processable_scenes)
    /\ pc' = IF Len(processable_scenes) = 0 THEN "raised" ELSE "returned"
    /\ UNCHANGED <<json_data, image_files, progress_file, output_dir,
                   processable_scenes, progress_data, completed_scenes,
                   failed_scenes, results, idx, attempted, delays, start_dir, run_no,
                   last_written, prev>>
    /\ UNCHANGED non_batch_vars

(***************************************************************************)
(* The environment: the process is killed; between two runs an output file *)
(* is deleted or truncated.                                                *)
(***************************************************************************)
Kill ==
    /\ pc \in Running
    /\ pc' = "crashed"
    /\ prev' = [ended |-> "killed",
                inflight |-> IF idx < Len(processable_scenes)
                             THEN CurrentScene.scene_id ELSE <<>>,
                recorded |-> ToSet(last_written.completed),
                completed |-> <<>>,
                derived |-> processable_scenes]
    /\ processable_scenes' = <<>>
    /\ progress_data' = NoRecord
    /\ completed_scenes' = <<>>
    /\ failed_scenes' = <<>>
    /\ results' = NoResults
    /\ idx' = 0
    /\ attempted' = <<>>
    /\ delays' = 0
    /\ start_dir' = output_dir
    /\ UNCHANGED <<json_data, image_files, progress_file, output_dir, run_no,
                   last_written>>
    /\ UNCHANGED non_batch_vars

DeleteVideo ==
    /\ pc \in NotRunning
    /\ \E s \in DOMAIN output_dir :
          /\ output_dir[s] # NoFile
          /\ output_dir' = [output_dir EXCEPT ![s] = NoFile]
    /\ UNCHANGED <<json_data, image_files, progress_file, pc,
                   processable_scenes, progress_data, completed_scenes,
                   failed_scenes, results, idx, attempted, delays, start_dir, run_no,
                   last_written, prev>>
    /\ UNCHANGED non_batch_vars

TruncateVideo ==
    /\ pc \in NotRunning
    /\ \E s \in DOMAIN output_dir :
          /\ output_dir[s] > MinViableSize - 1
          /\ output_dir' = [output_dir EXCEPT ![s] = MinViableSize - 1]
    /\ UNCHANGED <<json_data, image_files, progress_file, pc,
                   processable_scenes, progress_data, completed_scenes,
                   failed_scenes, results, idx, attempted, delays, start_dir, run_no,
                   last_written, prev>>
    /\ UNCHANGED non_batch_vars

Next ==
    \/ StartRun
    \/ VisitScene
    \/ ProcessScene
    \/ SaveProgressOpen
    \/ SaveProgressDump
    \/ FinishRun
    \/ Kill
    \/ DeleteVideo
    \/ TruncateVideo

Spec == Init /\ [][Next]_vars

(***************************************************************************)
(* The derivation loop of process_all_scenes on its own, lines 2093-2116,  *)
(* one iteration of "for i, scene_data in enumerate(scenes)" per step,     *)
(* over jobs whose scenes have up to MaxDeriveEvents events.               *)
(***************************************************************************)
DeriveSceneData == [scene_desc : {"null", "text"}, events : 0..MaxDeriveEvents]

DeriveJobs == UNION {[1..n -> DeriveSceneData] : n \in 0..MaxScenes}

DeriveInit ==
    /\ dv_scenes \in DeriveJobs
    /\ dv_i = 0
    /\ dv_items = <<>>
    /\ BatchIdle
    /\ LocateIdle
    /\ SceneIdle
    /\ DurationIdle
    /\ GenerateIdle
    /\ WaitIdle
    /\ ControlIdle
    /\ SessionIdle
    /\ PromptIdle
    /\ ConcurrentIdle
    /\ PolicyIdle
    /\ ImageIdle

\* the scene_data of the iteration
DeriveCurrent == dv_scenes[dv_i + 1]

\* line 2095 false: "is narration-only (no scene_desc), skipping"
DeriveNarrationOnly ==
    /\ dv_i < Len(dv_scenes)
    /\ DeriveCurrent.scene_desc = "null"
    /\ dv_items' = dv_items \o SceneItems(dv_i, DeriveCurrent)
    /\ dv_i' = dv_i + 1
    /\ UNCHANGED <<dv_scenes, non_derive_vars>>

\* lines 2096-2105: one item per event
DeriveEvents ==
    /\ dv_i < Len(dv_scenes)
    /\ DeriveCurrent.scene_desc # "null"
    /\ DeriveCurrent.events > 0
    /\ dv_items' = dv_items \o SceneItems(dv_i, DeriveCurrent)
    /\ dv_i' = dv_i + 1
    /\ UNCHANGED <<dv_scenes, non_derive_vars>>

\* lines 2106-2114: the scene itself
DeriveRegular ==
    /\ dv_i < Len(dv_scenes)
    /\ DeriveCurrent.scene_desc # "null"
    /\ DeriveCurrent.events = 0
    /\ dv_items' = dv_items \o SceneItems(dv_i, DeriveCurrent)
    /\ dv_i' = dv_i + 1
    /\ UNCHANGED <<dv_scenes, non_derive_vars>>

DeriveNext ==
    \/ DeriveNarrationOnly
    \/ DeriveEvents
    \/ DeriveRegular

SpecDerive == DeriveInit /\ [][DeriveNext]_vars

(***************************************************************************)
(* find_element_safe, lines 233-256.  One WebDriverWait of wait_time is    *)
(* used for every selector in turn: waiter.until polls the page for the    *)
(* selector's element, returns it as soon as a poll finds it, and raises   *)
(* TimeoutException when wait_time has passed without one (a               *)
(* NoSuchElementException of a poll is ignored by the wait).  Time is      *)
(* counted in polls; wait_time is WaitPolls polls.  The page is given by   *)
(* the time from which each selector's element is present.  The driver     *)
(* answers every poll: a browser that has gone away is not modelled here.  *)
(***************************************************************************)
\* the last moment a call can reach: every selector waited for in full
LastPoll == MaxSelectors * WaitPolls

\* the element of a selector never shows up while the call lasts
NeverPresent == LastPoll + 1

PresentFrom == 0..LastPoll \cup {NeverPresent}

SelectorLists == UNION {[1..n -> PresentFrom] : n \in 0..MaxSelectors}

\* EC.presence_of_element_located(selector) at the time of a poll
PresenceOfElementLocated(k, now) == selectors[k] <= now

LocateInit ==
    /\ selectors \in SelectorLists
    /\ lc_pc = "call"
    /\ lc_k = 0
    /\ lc_clock = 0
    /\ lc_start = 0
    /\ lc_result = 0
    /\ lc_windows = <<>>
    /\ BatchIdle
    /\ DeriveIdle
    /\ SceneIdle
    /\ DurationIdle
    /\ GenerateIdle
    /\ WaitIdle
    /\ ControlIdle
    /\ SessionIdle
    /\ PromptIdle
    /\ ConcurrentIdle
    /\ PolicyIdle
    /\ ImageIdle

\* lines 243-245: the waiter is built and the loop entered; with no
\* selector the loop body never runs and None is returned (lines 254-255)
LocateCall ==
    /\ lc_pc = "call"
    /\ IF Len(selectors) = 0
       THEN /\ lc_pc' = "returned"
            /\ UNCHANGED lc_k
       ELSE /\ lc_pc' = "wait"
            /\ lc_k' = 1
    /\ UNCHANGED <<selectors, lc_clock, lc_start, lc_result, lc_windows,
                   non_locate_vars>>

\* lines 247-249: a poll finds the element and it is returned
LocateFound ==
    /\ lc_pc = "wait"
    /\ PresenceOfElementLocated(lc_k, lc_clock)
    /\ lc_result' = lc_k
    /\ lc_pc' = "returned"
    /\ UNCHANGED <<selectors, lc_k, lc_clock, lc_start, lc_windows,
                   non_locate_vars>>

\* waiter.until: the poll found nothing and wait_time has not passed
LocateSleep ==
    /\ lc_pc = "wait"
    /\ ~PresenceOfElementLocated(lc_k, lc_clock)
    /\ lc_clock - lc_start < WaitPolls
    /\ lc_clock' = lc_clock + 1
    /\ UNCHANGED <<selectors, lc_pc, lc_k, lc_start, lc_result, lc_windows,
                   non_locate_vars>>

NextSelectorMut(k) == Len(selectors) + 1

\* "continue", line 252: the loop goes on with the next selector
NextSelector(k) == k + 1

\* lines 250-255: the wait timed out; the next selector is waited for, or
\* None is returned after the last one
LocateTimeout ==
    /\ lc_pc = "wait"
    /\ ~PresenceOfElementLocated(lc_k, lc_clock)
    /\ lc_clock - lc_start >= WaitPolls
    /\ lc_windows' = Append(lc_windows,
                            [selector |-> lc_k, from |-> lc_start,
                             to |-> lc_clock])
    /\ IF NextSelector(lc_k) > Len(selectors)
       THEN /\ lc_pc' = "returned"
            /\ UNCHANGED <<lc_k, lc_start>>
       ELSE /\ lc_k' = NextSelector(lc_k)
            /\ lc_start' = lc_clock
            /\ UNCHANGED lc_pc
    /\ UNCHANGED <<selectors, lc_clock, lc_result, non_locate_vars>>

LocateNext ==
    \/ LocateCall
    \/ LocateFound
    \/ LocateSleep
    \/ LocateTimeout

SpecLocate == LocateInit /\ [][LocateNext]_vars

(***************************************************************************)
(* _determine_video_duration, lines 2945-3075, and get_narration_duration, *)
(* lines 2615-2630.  The scene ids of the batch all start with "scene_"    *)
(* and carry a decimal index, so the index is always found.  What the      *)
(* search of lines 2982-3038 and the measurement give is the input: no     *)
(* file matched, a file matched whose length could not be read, or a file  *)
(* with a length, counted in tenths of a second.                           *)
(***************************************************************************)
NarrationFiles ==
    {NoNarrationFile} \cup
    {[found |-> TRUE, length |-> l] : l \in {NoDuration} \cup 0..MaxNarration}

\* lines 3041-3045: a file was found and its length read
Measured(n) == n.found /\ n.length # NoDuration

IsShortMut(d) == d <= 75

\* line 3048: "if narration_duration <= 6.0"
IsShort(d) == d <= ShortNarration

\* lines 3047-3060: the mapping of a measured length
MapDuration(d) ==
    IF IsShort(d) THEN 5
    ELSE IF d <= MediumNarration THEN 10
    ELSE 10

\* the value returned: lines 3041-3075
DetermineVideoDuration(n) ==
    IF Measured(n) THEN MapDuration(n.length) ELSE default_duration

DurationInit ==
    /\ narration \in NarrationFiles
    /\ dp_pc = "call"
    /\ selected_duration = 0
    /\ BatchIdle
    /\ DeriveIdle
    /\ LocateIdle
    /\ SceneIdle
    /\ GenerateIdle
    /\ WaitIdle
    /\ ControlIdle
    /\ SessionIdle
    /\ PromptIdle
    /\ ConcurrentIdle
    /\ PolicyIdle
    /\ ImageIdle

\* lines 3048-3051: short narration
DurationShort ==
    /\ dp_pc = "call"
    /\ Measured(narration)
    /\ IsShort(narration.length)
    /\ selected_duration' = DetermineVideoDuration(narration)
    /\ dp_pc' = "returned"
    /\ UNCHANGED <<narration, non_duration_vars>>

\* lines 3052-3055: medium narration
DurationMedium ==
    /\ dp_pc = "call"
    /\ Measured(narration)
    /\ ~IsShort(narration.length)
    /\ narration.length <= MediumNarration
    /\ selected_duration' = DetermineVideoDuration(narration)
    /\ dp_pc' = "returned"
    /\ UNCHANGED <<narration, non_duration_vars>>

\* lines 3056-3061: long narration, capped
DurationLong ==
    /\ dp_pc = "call"
    /\ Measured(narration)
    /\ ~IsShort(narration.length)
    /\ narration.length > MediumNarration
    /\ selected_duration' = DetermineVideoDuration(narration)
    /\ dp_pc' = "returned"
    /\ UNCHANGED <<narration, non_duration_vars>>

\* lines 3062-3075: no file, or no length: the default
DurationDefault ==
    /\ dp_pc = "call"
    /\ ~Measured(narration)
    /\ selected_duration' = DetermineVideoDuration(narration)
    /\ dp_pc' = "returned"
    /\ UNCHANGED <<narration, non_duration_vars>>

DurationNext ==
    \/ DurationShort
    \/ DurationMedium
    \/ DurationLong
    \/ DurationDefault

SpecDuration == DurationInit /\ [][DurationNext]_vars

(***************************************************************************)
(* _process_single_scene_with_data, lines 2349-2455, step by step: the     *)
(* same workflow that ProcessSingleSceneWithData gives as a function, with *)
(* the procedures it calls.  The object lives on between calls, so         *)
(* is_logged_in keeps its value from one call to the next.                 *)
(***************************************************************************)
SceneArgs == [motion_desc : {"absent", "null", "text"},
              image_exists : BOOLEAN,
              is_first_scene : BOOLEAN,
              is_final_scene : BOOLEAN]

SceneInit ==
    /\ is_logged_in = FALSE
    /\ wf_pc = "idle"
    /\ wf_calls = 0
    /\ wf = NoCall
    /\ BatchIdle
    /\ DeriveIdle
    /\ LocateIdle
    /\ DurationIdle
    /\ GenerateIdle
    /\ WaitIdle
    /\ ControlIdle
    /\ SessionIdle
    /\ PromptIdle
    /\ ConcurrentIdle
    /\ PolicyIdle
    /\ ImageIdle

\* login, lines 258-272, with the outcome of _manual_login or
\* _automated_login (which set is_logged_in on success, lines 297 and 394):
\* ok is the value returned, ran whether the login procedure was run, flag
\* the value of is_logged_in afterwards
LoginCall(flag, outcome) ==
    IF flag THEN [ok |-> TRUE, ran |-> FALSE, flag |-> TRUE]
    ELSE [ok |-> outcome, ran |-> TRUE, flag |-> outcome]

\* main, lines 3401-3404: the login before the batch
Login ==
    /\ wf_pc = "idle"
    /\ \E outcome \in BOOLEAN :
          is_logged_in' = LoginCall(is_logged_in, outcome).flag
    /\ UNCHANGED <<wf_pc, wf_calls, wf, non_scene_vars>>

\* the call, line 2198
StartScene ==
    /\ wf_pc \in {"idle", "returned"}
    /\ wf_calls < MaxCalls
    /\ wf_calls' = wf_calls + 1
    /\ \E scene \in SceneArgs :
          wf' = [NoCall EXCEPT !.started = TRUE, !.scene = scene]
    /\ wf_pc' = "health"
    /\ UNCHANGED <<is_logged_in, non_scene_vars>>

AfterFatalMut(ok, next) == next

\* "if not self.<step>(...): return False": where the workflow goes after a
\* step whose failure aborts the scene
AfterFatal(ok, next) == IF ok THEN next ELSE "returned"

\* the value returned when the workflow ends at that point
ResultAt(position) == IF position = "returned" THEN "failure" ELSE "none"

\* lines 2363-2375: check_session_health, recover_session, login
CheckSession ==
    /\ wf_pc = "health"
    /\ \E healthy, recovered, outcome \in BOOLEAN :
          LET r == LoginCall(is_logged_in, outcome)
              ok == healthy \/ recovered \/ r.ok
              session == IF healthy THEN "healthy"
                         ELSE IF recovered THEN "recovered"
                         ELSE IF ~r.ran THEN "relogin_skipped"
                         ELSE IF r.ok THEN "relogin_ran"
                         ELSE "relogin_failed"
          IN /\ is_logged_in' = IF healthy \/ recovered THEN is_logged_in
                                ELSE r.flag
             /\ wf_pc' = AfterFatal(ok, "video_mode")
             /\ wf' = [wf EXCEPT !.trace = Append(@, "health"),
                                 !.session = session,
                                 !.result = ResultAt(AfterFatal(ok, "video_mode"))]
    /\ UNCHANGED <<wf_calls, non_scene_vars>>

MoreAttemptsMut(calls) == calls < VideoModeAttempts + 1

\* "for attempt in range(3)": another call of _force_video_mode follows
\* after that many calls
MoreAttempts(calls) == calls < VideoModeAttempts

\* lines 2380-2387: one call of _force_video_mode (lines 3077-3132, which
\* returns False on any exception) and what the loop does with its value
ForceVideoMode ==
    /\ wf_pc = "video_mode"
    /\ \E ok \in BOOLEAN :
          LET calls == Len(wf.video_mode) + 1
              position == IF ok THEN "select_asset"
                          ELSE IF MoreAttempts(calls) THEN "video_mode"
                          ELSE "returned"
          IN /\ wf_pc' = position
             /\ wf' = [wf EXCEPT !.trace = IF Len(wf.video_mode) = 0
                                           THEN Append(@, "video_mode")
                                           ELSE @,
                                 !.video_mode = Append(@, ok),
                                 !.result = ResultAt(position)]
    /\ UNCHANGED <<is_logged_in, wf_calls, non_scene_vars>>

\* lines 2392-2399: click_select_asset_button, whose failure is only logged
SelectAsset ==
    /\ wf_pc = "select_asset"
    /\ \E ok \in BOOLEAN :
          wf' = [wf EXCEPT !.trace = Append(@, "select_asset")]
    /\ wf_pc' = "upload"
    /\ UNCHANGED <<is_logged_in, wf_calls, non_scene_vars>>

\* the page as access_upload_interface meets it:
\*   file_input         a file input is found by _upload_file_direct
\*   area_clickable     one of the upload area selectors becomes clickable
\*   input_after_click  a file input is present after the click
UploadPages == [file_input : BOOLEAN, area_clickable : BOOLEAN,
                input_after_click : BOOLEAN]

\* _upload_file_direct, lines 831-880
UploadFileDirect(image_exists, page) == image_exists /\ page.file_input

\* _handle_file_upload_after_click, lines 882-914: send_keys of a path
\* that does not exist puts no file into the input
HandleFileUploadAfterClick(image_exists, page) ==
    page.input_after_click /\ image_exists

\* access_upload_interface(image_path), lines 713-829
AccessUploadInterface(image_exists, page) ==
    IF UploadFileDirect(image_exists, page)
    THEN [ok |-> TRUE, supplied |-> TRUE]
    ELSE IF page.area_clickable
         THEN [ok |-> TRUE,
               supplied |-> HandleFileUploadAfterClick(image_exists, page)]
         ELSE [ok |-> UploadFileDirect(image_exists, page),
               supplied |-> UploadFileDirect(image_exists, page)]

\* lines 2403-2405
UploadImage ==
    /\ wf_pc = "upload"
    /\ \E page \in UploadPages :
          LET r == AccessUploadInterface(wf.scene.image_exists, page) IN
          /\ wf_pc' = AfterFatal(r.ok, "aspect")
          /\ wf' = [wf EXCEPT !.trace = Append(@, "upload"),
                              !.upload = r,
                              !.result = ResultAt(AfterFatal(r.ok, "aspect"))]
    /\ UNCHANGED <<is_logged_in, wf_calls, non_scene_vars>>

\* select_aspect_ratio_16_9, lines 1068-1147: True or False, or an
\* exception, since line 1102 calls find_element_safe outside any try and
\* find_element_safe (lines 233-256) catches TimeoutException and
\* NoSuchElementException only
AspectOutcomes == {"ok", "failed", "raised"}

\* lines 2409-2410: a False of select_aspect_ratio_16_9 is only logged; the
\* call is in no try of its own, so an exception reaches the except of
\* line 2453, which returns False
SelectAspectRatio ==
    /\ wf_pc = "aspect"
    /\ \E outcome \in AspectOutcomes :
          LET position == IF outcome = "raised" THEN "returned" ELSE "prompt"
          IN /\ wf_pc' = position
             /\ wf' = [wf EXCEPT !.trace = Append(@, "aspect"),
                                 !.aspect = outcome,
                                 !.result = ResultAt(position)]
    /\ UNCHANGED <<is_logged_in, wf_calls, non_scene_vars>>

\* line 2414: scene_data.get('motion_desc', '<default prompt>'): the
\* default for a missing key only, None for a key that holds null
MotionDescription(scene) ==
    IF scene.motion_desc = "absent" THEN "default"
    ELSE IF scene.motion_desc = "null" THEN "None"
    ELSE "text"

\* lines 2412-2417 and enter_motion_prompt, lines 1004-1066: line 1014
\* slices motion_description before any try, which raises TypeError for
\* None; the except of line 2453 then returns False
EnterMotionPrompt ==
    /\ wf_pc = "prompt"
    /\ \E ok \in BOOLEAN :
          LET motion_description == MotionDescription(wf.scene)
              entered == motion_description # "None" /\ ok
          IN /\ wf_pc' = AfterFatal(entered, "duration")
             /\ wf' = [wf EXCEPT !.trace = Append(@, "prompt"),
                                 !.prompt = IF motion_description = "None"
                                            THEN "raised"
                                            ELSE IF ok THEN motion_description
                                            ELSE "failed",
                                 !.result =
                                     ResultAt(AfterFatal(entered, "duration"))]
    /\ UNCHANGED <<is_logged_in, wf_calls, non_scene_vars>>

\* the narrations a scene of the workflow is given
SceneNarrations == {NoNarrationFile, [found |-> TRUE, length |-> 40],
                    [found |-> TRUE, length |-> 61]}

\* lines 2422-2425: _determine_video_duration and select_video_duration,
\* whose failure is only logged.  select_video_duration (lines 2800-2944)
\* is mis-indented at line 2874 and does not compile as it stands; its body
\* is taken as the one try / except Exception it is laid out to be, so the
\* call returns True or False and raises nothing
SelectDuration ==
    /\ wf_pc = "duration"
    /\ \E n \in SceneNarrations, ok \in BOOLEAN :
          wf' = [wf EXCEPT !.trace = Append(@, "duration"),
                           !.target = DetermineVideoDuration(n)]
    /\ wf_pc' = "generate"
    /\ UNCHANGED <<is_logged_in, wf_calls, non_scene_vars>>

\* lines 2428-2431: click_generate_button
Generate ==
    /\ wf_pc = "generate"
    /\ \E ok \in BOOLEAN :
          /\ wf_pc' = AfterFatal(ok, "wait")
          /\ wf' = [wf EXCEPT !.trace = Append(@, "generate"),
                              !.generate = IF ok THEN "ok" ELSE "failed",
                              !.result = ResultAt(AfterFatal(ok, "wait"))]
    /\ UNCHANGED <<is_logged_in, wf_calls, non_scene_vars>>

\* lines 2434-2437: wait_for_generation_and_download
WaitAndDownload ==
    /\ wf_pc = "wait"
    /\ \E page \in Pages :
          LET r == WaitForGenerationAndDownload(page) IN
          /\ wf_pc' = AfterFatal(r.ok, "concat")
          /\ wf' = [wf EXCEPT !.trace = Append(@, "wait"),
                              !.download = IF r.ok THEN "ok" ELSE "failed",
                              !.video = r.file,
                              !.result = ResultAt(AfterFatal(r.ok, "concat"))]
    /\ UNCHANGED <<is_logged_in, wf_calls, non_scene_vars>>

\* what create_concatenated_videos finds:
\*   media  moviepy is there and loads and writes the clips
\*   intro  an intro.mp4 is in one of the searched directories
\*   outro  an outro.mp4 is in one of the searched directories
Clips == [media : BOOLEAN, intro : BOOLEAN, outro : BOOLEAN]

\* create_concatenated_videos, lines 2632-2798: the files it writes
CreateConcatenatedVideos(is_first_scene, is_final_scene, clips) ==
    IF ~clips.media THEN {}
    ELSE IF ~is_first_scene /\ ~is_final_scene THEN {}
    ELSE IF is_first_scene /\ ~clips.intro THEN {}
    ELSE IF is_final_scene /\ ~clips.outro THEN {}
    ELSE IF is_first_scene /\ clips.intro THEN {"with_intro"}
    ELSE IF is_final_scene /\ clips.outro THEN {"final"}
    ELSE {}

\* lines 2439-2448, the video file exists: create_concatenated_videos is
\* called, and whatever it does the scene has succeeded (lines 2450-2451)
Concatenate ==
    /\ wf_pc = "concat"
    /\ wf.video # NoFile
    /\ \E clips \in Clips :
          wf' = [wf EXCEPT !.trace = Append(@, "concat"),
                           !.clips = clips,
                           !.concatenated =
                               CreateConcatenatedVideos(
                                   wf.scene.is_first_scene,
                                   wf.scene.is_final_scene, clips),
                           !.result = "success"]
    /\ wf_pc' = "returned"
    /\ UNCHANGED <<is_logged_in, wf_calls, non_scene_vars>>

\* lines 2447-2451, no video file: a warning, and the scene has succeeded
SkipConcatenation ==
    /\ wf_pc = "concat"
    /\ wf.video = NoFile
    /\ wf' = [wf EXCEPT !.result = "success"]
    /\ wf_pc' = "returned"
    /\ UNCHANGED <<is_logged_in, wf_calls, non_scene_vars>>

SceneNext ==
    \/ Login
    \/ StartScene
    \/ CheckSession
    \/ ForceVideoMode
    \/ SelectAsset
    \/ UploadImage
    \/ SelectAspectRatio
    \/ EnterMotionPrompt
    \/ SelectDuration
    \/ Generate
    \/ WaitAndDownload
    \/ Concatenate
    \/ SkipConcatenation

SpecScene == SceneInit /\ [][SceneNext]_vars

(***************************************************************************)
(* click_generate_button, lines 1236-1459, one statement group of the      *)
(* function per action.  Everything from the lookup of the parent button   *)
(* to the last-resort return sits in one try (lines 1259-1413) whose       *)
(* except (lines 1415-1431) issues the script click.                       *)
(***************************************************************************)
\* line 1297
extended_verification_time == 20

\* line 1298, the check_interval of the verification loop
generate_check_interval == 2

GenerateInit ==
    /\ gb_pc = "idle"
    /\ gb = NoClick
    /\ BatchIdle
    /\ DeriveIdle
    /\ LocateIdle
    /\ SceneIdle
    /\ DurationIdle
    /\ WaitIdle
    /\ ControlIdle
    /\ SessionIdle
    /\ PromptIdle
    /\ ConcurrentIdle
    /\ PolicyIdle
    /\ ImageIdle

\* the return statements of the function
GenerateReturn(call, value) ==
    [call EXCEPT !.result = IF value THEN "success" ELSE "failure"]

\* lines 1256-1258 and 1432-1459: the control is looked up; when it is not
\* found the function logs what the page holds and returns False
GenerateLocate ==
    /\ gb_pc = "idle"
    /\ \E found \in BOOLEAN :
          IF found
          THEN /\ gb' = [gb EXCEPT !.found = TRUE]
               /\ gb_pc' = "prepare"
          ELSE /\ gb' = GenerateReturn(gb, FALSE)
               /\ gb_pc' = "returned"
    /\ UNCHANGED non_generate_vars

\* lines 1260-1278: parent button, disabled attributes (a warning only),
\* length of the page source; a driver exception goes to line 1415
GeneratePrepare ==
    /\ gb_pc = "prepare"
    /\ \E disabled, raises \in BOOLEAN :
          IF raises
          THEN /\ gb' = [gb EXCEPT !.raised = "prepare"]
               /\ gb_pc' = "script_click"
          ELSE /\ gb' = [gb EXCEPT !.disabled = disabled]
               /\ gb_pc' = "click"
    /\ UNCHANGED non_generate_vars

\* line 1281: generate_element.click()
GenerateClick ==
    /\ gb_pc = "click"
    /\ \E raises \in BOOLEAN :
          IF raises
          THEN /\ gb' = [gb EXCEPT !.primary = "raised", !.raised = "click"]
               /\ gb_pc' = "script_click"
          ELSE /\ gb' = [gb EXCEPT !.primary = "issued"]
               /\ gb_pc' = "length"
    /\ UNCHANGED non_generate_vars

\* lines 1288-1294: the length of the page source is read again; a delta
\* above 1000 returns True
GenerateLengthCheck ==
    /\ gb_pc = "length"
    /\ \E outcome \in {"delta", "same", "raised"} :
          CASE outcome = "delta" ->
                  /\ gb' = GenerateReturn([gb EXCEPT !.signal = "length"], TRUE)
                  /\ gb_pc' = "returned"
            [] outcome = "same" ->
                  /\ gb' = gb
                  /\ gb_pc' = "verify"
            [] outcome = "raised" ->
                  /\ gb' = [gb EXCEPT !.raised = "length"]
                  /\ gb_pc' = "script_click"
    /\ UNCHANGED non_generate_vars

\* what one round of the verification loop can observe: a progress marker
\* (lines 1341-1345), the states of the button (lines 1347-1368: keyword
\* in its text, disabled, blank text, or an exception of the lookup, which
\* the bare except turns into True), the URL pattern (lines 1370-1378),
\* nothing, or an exception of the progress lookup
VerifyOutcomes == {"progress", "button_text", "button_disabled",
                   "button_blank", "button_error", "url", "nothing",
                   "raised"}

\* lines 1301-1378: one round of "while elapsed < extended_verification_time"
GenerateVerify ==
    /\ gb_pc = "verify"
    /\ gb.elapsed < extended_verification_time
    /\ \E outcome \in VerifyOutcomes :
          LET round == [gb EXCEPT !.elapsed = @ + generate_check_interval] IN
          CASE outcome = "nothing" ->
                  /\ gb' = round
                  /\ gb_pc' = "verify"
            [] outcome = "raised" ->
                  /\ gb' = [round EXCEPT !.raised = "verify"]
                  /\ gb_pc' = "script_click"
            [] OTHER ->
                  /\ gb' = GenerateReturn([round EXCEPT !.signal = outcome],
                                          TRUE)
                  /\ gb_pc' = "returned"
    /\ UNCHANGED non_generate_vars

\* lines 1381-1413: after the loop the page source is scanned for keywords
\* and percentages (an exception of the scan is only logged), and whatever
\* the scan finds the function returns True
GenerateScan ==
    /\ gb_pc = "verify"
    /\ gb.elapsed >= extended_verification_time
    /\ \E outcome \in {"keyword", "percentage", "none"} :
          gb' = GenerateReturn([gb EXCEPT !.signal = outcome], TRUE)
    /\ gb_pc' = "returned"
    /\ UNCHANGED non_generate_vars

\* lines 1415-1431: the except of the try: a script click, and True when
\* it does not raise, False when it does
GenerateScriptClick ==
    /\ gb_pc = "script_click"
    /\ \E raises \in BOOLEAN :
          gb' = GenerateReturn(
                    [gb EXCEPT !.script = IF raises THEN "raised"
                                          ELSE "issued"], ~raises)
    /\ gb_pc' = "returned"
    /\ UNCHANGED non_generate_vars

GenerateNext ==
    \/ GenerateLocate
    \/ GeneratePrepare
    \/ GenerateClick
    \/ GenerateLengthCheck
    \/ GenerateVerify
    \/ GenerateScan
    \/ GenerateScriptClick

SpecGenerate == GenerateInit /\ [][GenerateNext]_vars

(***************************************************************************)
(* wait_for_generation_and_download, lines 1461-1650, and                  *)
(* _download_generated_video, lines 1728-1922, step by step.  The page is  *)
(* looked at anew by every lookup; what a poll finds is chosen when the    *)
(* poll begins.  An exception raised inside the try of the polling loop    *)
(* (lines 1483-1609), also one that comes out of                           *)
(* _download_generated_video, is handled by lines 1611-1619.  The counter  *)
(* of a loop that has been left is put back to 0.                          *)
(***************************************************************************)
\* line 1749
max_wait_4k == 600

\* line 1750
poll_interval == 5

\* line 1773: "elif waited > 30"
upscale_grace == 30

\* line 1869, the timeout of the download wait loop
download_timeout == 60

\* lines 1873-1874: time.sleep(2); elapsed += 2
download_interval == 2

WaitPages == [completion : BOOLEAN, error : BOOLEAN]

WaitInit ==
    /\ wt_pc = "idle"
    /\ wt = NoWait
    /\ BatchIdle
    /\ DeriveIdle
    /\ LocateIdle
    /\ SceneIdle
    /\ DurationIdle
    /\ GenerateIdle
    /\ ControlIdle
    /\ SessionIdle
    /\ PromptIdle
    /\ ConcurrentIdle
    /\ PolicyIdle
    /\ ImageIdle

\* lines 1477-1480, and self.upscale_4k as __init__ set it (line 104)
WaitCall ==
    /\ wt_pc = "idle"
    /\ \E upscale_4k \in BOOLEAN :
          wt' = [NoWait EXCEPT !.upscale_4k = upscale_4k]
    /\ wt_pc' = "poll"
    /\ UNCHANGED non_wait_vars

\* lines 1608-1609: time.sleep(check_interval); elapsed_time += check_interval
PollAdvance(elapsed_time) == elapsed_time + check_interval

ExceptionAdvanceMut(elapsed_time) == elapsed_time

\* lines 1613-1614, the same two statements in the except
ExceptionAdvance(elapsed_time) == elapsed_time + check_interval

\* the round of the polling loop ends: back to line 1482
EndOfPoll(call, elapsed_time) ==
    [call EXCEPT !.elapsed_time = elapsed_time,
                 !.polls = IF @ > max_wait_time \div check_interval
                           THEN @ ELSE @ + 1,
                 !.page = NoPage, !.attempted = FALSE,
                 !.waited = 0, !.elapsed = 0]

\* the function returns
WaitReturn(call, result) == [call EXCEPT !.result = result]

\* lines 1482-1514: a round begins with the lookup of a completion
\* indicator; with one, _download_generated_video is called (line 1518),
\* without one the error lookup follows
PollCompletion ==
    /\ wt_pc = "poll"
    /\ wt.elapsed_time < max_wait_time
    /\ \/ \E page \in WaitPages :
             /\ wt' = [wt EXCEPT !.page = page]
             /\ wt_pc' = IF page.completion THEN "download" ELSE "error_check"
       \/ /\ wt' = EndOfPoll(wt, ExceptionAdvance(wt.elapsed_time))
          /\ wt_pc' = "poll"
    /\ UNCHANGED non_wait_vars

\* lines 1741-1751 and 1786: with upscale_4k the 4K button is clicked
\* (_click_4k_upscale_button, lines 1652-1726, returns True whatever
\* happens) and the 4K wait loop begins
DownloadStart ==
    /\ wt_pc = "download"
    /\ wt' = [wt EXCEPT !.attempted = TRUE, !.waited = 0, !.elapsed = 0]
    /\ wt_pc' = IF wt.upscale_4k THEN "upscale_wait" ELSE "download_locate"
    /\ UNCHANGED non_wait_vars

\* an exception leaves _download_generated_video: inside the polling loop
\* it is caught by line 1611, after the loop (line 1644) by nobody
DownloadRaised(call) ==
    IF call.phase = "loop"
    THEN EndOfPoll(call, ExceptionAdvance(call.elapsed_time))
    ELSE WaitReturn(call, "raised")

AfterRaise(phase) == IF phase = "loop" THEN "poll" ELSE "returned"

\* lines 1752-1782: one round of "while waited < max_wait_4k": it breaks
\* when a download button is there and either two of them are or more
\* than 30 seconds have been waited; find_element_safe (line 1765) and
\* find_elements (line 1769) are in no try
UpscaleWait ==
    /\ wt_pc = "upscale_wait"
    /\ wt.waited < max_wait_4k
    /\ \/ \E ready_btn, two \in BOOLEAN :
             IF ready_btn /\ (two \/ wt.waited > upscale_grace)
             THEN /\ wt' = [wt EXCEPT !.waited = 0]
                  /\ wt_pc' = "download_locate"
             ELSE /\ wt' = [wt EXCEPT !.waited = @ + poll_interval]
                  /\ wt_pc' = "upscale_wait"
       \/ /\ wt' = DownloadRaised(wt)
          /\ wt_pc' = AfterRaise(wt.phase)
    /\ UNCHANGED non_wait_vars

\* lines 1784-1785: the else of the while, the 4K render did not finish
UpscaleGiveUp ==
    /\ wt_pc = "upscale_wait"
    /\ wt.waited >= max_wait_4k
    /\ wt' = [wt EXCEPT !.waited = 0]
    /\ wt_pc' = "download_locate"
    /\ UNCHANGED non_wait_vars

AfterDownloadMut(ok, phase) == "returned"

\* what follows the value of _download_generated_video: True returns True
\* (lines 1518-1519, 1644-1645); False falls through to the error lookup
\* inside the loop (lines 1520-1522) and to the final return False after
\* it (lines 1646-1650)
AfterDownload(ok, phase) ==
    IF ok THEN "returned"
    ELSE IF phase = "loop" THEN "error_check"
    ELSE "returned"

\* _download_generated_video returns that value and its locals are gone
DownloadReturn(call, ok, position) ==
    LET left == [call EXCEPT !.waited = 0, !.elapsed = 0] IN
    IF position = "returned"
    THEN WaitReturn(left, IF ok THEN "success" ELSE "failure")
    ELSE left

\* lines 1810-1812 and 1906-1922: the download control is looked up; when
\* there is none, a video element with a src is reported as success
DownloadLocate ==
    /\ wt_pc = "download_locate"
    /\ \/ /\ wt' = wt
          /\ wt_pc' = "download_click"
       \/ \E video_src \in BOOLEAN :
             LET position == AfterDownload(video_src, wt.phase) IN
             /\ wt' = DownloadReturn(wt, video_src, position)
             /\ wt_pc' = position
       \/ /\ wt' = DownloadRaised(wt)
          /\ wt_pc' = AfterRaise(wt.phase)
    /\ UNCHANGED non_wait_vars

\* lines 1813-1870: the control is chosen and clicked, by click(), the
\* script click, ActionChains or ENTER; when all four raise, or anything
\* else in the try does (line 1903), the function returns False
DownloadClick ==
    /\ wt_pc = "download_click"
    /\ \/ /\ wt' = [wt EXCEPT !.retriggered = @ \/ wt.timed_out,
                              !.elapsed = 0]
          /\ wt_pc' = "file_wait"
       \/ LET position == AfterDownload(FALSE, wt.phase) IN
          /\ wt' = DownloadReturn(wt, FALSE, position)
          /\ wt_pc' = position
    /\ UNCHANGED non_wait_vars

\* lines 1872-1898: one round of "while elapsed < timeout": a new video
\* file in the download folder is moved to {scene_id}.mp4 and the function
\* returns True; an exception of listdir or move returns False (line 1903)
FileWait ==
    /\ wt_pc = "file_wait"
    /\ wt.elapsed < download_timeout
    /\ \E outcome \in {"new_file", "nothing", "raised"} :
          LET round == [wt EXCEPT !.elapsed = @ + download_interval] IN
          CASE outcome = "nothing" ->
                  /\ wt' = round
                  /\ wt_pc' = "file_wait"
            [] outcome = "new_file" ->
                  LET position == AfterDownload(TRUE, wt.phase) IN
                  /\ wt' = DownloadReturn([round EXCEPT !.file = TRUE], TRUE,
                                          position)
                  /\ wt_pc' = position
            [] outcome = "raised" ->
                  LET position == AfterDownload(FALSE, wt.phase) IN
                  /\ wt' = DownloadReturn(round, FALSE, position)
                  /\ wt_pc' = position
    /\ UNCHANGED non_wait_vars

\* lines 1900-1901: the download wait loop has run out
FileTimeout ==
    /\ wt_pc = "file_wait"
    /\ wt.elapsed >= download_timeout
    /\ LET position == AfterDownload(FALSE, wt.phase) IN
       /\ wt' = DownloadReturn([wt EXCEPT !.timed_out = TRUE], FALSE,
                               position)
       /\ wt_pc' = position
    /\ UNCHANGED non_wait_vars

\* lines 1525-1540: the lookup of an error indicator; with one the function
\* returns False
ErrorCheck ==
    /\ wt_pc = "error_check"
    /\ \/ /\ wt.page.error
          /\ wt' = WaitReturn(wt, "failure")
          /\ wt_pc' = "returned"
       \/ /\ ~wt.page.error
          /\ wt' = wt
          /\ wt_pc' = "progress"
       \/ /\ wt' = EndOfPoll(wt, ExceptionAdvance(wt.elapsed_time))
          /\ wt_pc' = "poll"
    /\ UNCHANGED non_wait_vars

\* lines 1542-1609: progress indicators and the state of the generate
\* button are looked up and only logged; then the counter advances
PollProgress ==
    /\ wt_pc = "progress"
    /\ \E progress, raises \in BOOLEAN :
          wt' = EndOfPoll(wt, IF raises
                              THEN ExceptionAdvance(wt.elapsed_time)
                              ELSE PollAdvance(wt.elapsed_time))
    /\ wt_pc' = "poll"
    /\ UNCHANGED non_wait_vars

\* lines 1621-1650: after the loop one search for a completion indicator
\* with wait_time=15; with one the download is tried once more, without
\* one the function returns False; nothing here is inside a try
FinalSearch ==
    /\ wt_pc = "poll"
    /\ wt.elapsed_time >= max_wait_time
    /\ wt.phase = "loop"
    /\ LET searched == [wt EXCEPT !.phase = "final",
                                  !.final_searches = @ + 1] IN
       \/ /\ wt' = [searched EXCEPT !.page.completion = TRUE]
          /\ wt_pc' = "download"
       \/ /\ wt' = WaitReturn(searched, "failure")
          /\ wt_pc' = "returned"
       \/ /\ wt' = WaitReturn(searched, "raised")
          /\ wt_pc' = "returned"
    /\ UNCHANGED non_wait_vars

WaitNext ==
    \/ WaitCall
    \/ PollCompletion
    \/ DownloadStart
    \/ UpscaleWait
    \/ UpscaleGiveUp
    \/ DownloadLocate
    \/ DownloadClick
    \/ FileWait
    \/ FileTimeout
    \/ ErrorCheck
    \/ PollProgress
    \/ FinalSearch

SpecWait == WaitInit /\ [][WaitNext]_vars

\* the interpreter runs the next statement of the call as long as there is
\* one: sleeps and lookups with a wait_time all end
SpecWaitLive == SpecWait /\ WF_vars(WaitNext)

(***************************************************************************)
(* The control _download_generated_video clicks, lines 1789-1831.  The     *)
(* page holds its download controls in document order; each carries        *)
(* data-saved 'true' (saved) or 'false', and has the class mainButton-...  *)
(* (main) or not.                                                          *)
(***************************************************************************)
Controls == [saved : BOOLEAN, main : BOOLEAN]

RECURSIVE ControlLists(_)
ControlLists(n) ==
    IF n = 0 THEN {<<>>}
    ELSE ControlLists(n - 1) \cup
         {Append(l, c) : l \in {m \in ControlLists(n - 1) : Len(m) = n - 1},
                         c \in Controls}

\* place of the first control a selector matches, given the places of all
\* it matches; 0 when it matches none: find_element gives the first match
\* in document order
FirstMatch(hits) ==
    IF hits = {} THEN 0 ELSE CHOOSE k \in hits : \A h \in hits : k <= h

\* lines 1790-1810: find_element_safe takes the selectors in their order:
\* data-saved 'true' on a main button, then on any download button, then
\* data-saved 'false' likewise, then the generic ones
LocateDownload(controls) ==
    LET places == 1..Len(controls)
        main_saved == {k \in places : controls[k].main /\ controls[k].saved}
        saved == {k \in places : controls[k].saved}
        main_unsaved == {k \in places :
                            controls[k].main /\ ~controls[k].saved}
    IN IF main_saved # {} THEN FirstMatch(main_saved)
       ELSE IF saved # {} THEN FirstMatch(saved)
       ELSE IF main_unsaved # {} THEN FirstMatch(main_unsaved)
       ELSE FirstMatch(places)

\* lines 1815-1820: the places of all "button.mainButton-_m_ZJD", in document
\* order; the empty list when find_elements raises
AllDownloadButtons(controls, listing_fails) ==
    IF listing_fails THEN <<>>
    ELSE SelectSeq([k \in 1..Len(controls) |-> k],
                   LAMBDA k : controls[k].main)

\* lines 1810-1831: the control that is clicked: the second main button
\* with two or more and upscale_4k, else the first main button, else the
\* one find_element_safe located
SelectDownloadControl(controls, upscale_4k, listing_fails) ==
    LET download_element == LocateDownload(controls)
        all_download_buttons == AllDownloadButtons(controls, listing_fails)
    IN IF download_element = 0 THEN 0
       ELSE IF Len(all_download_buttons) >= 2 /\ upscale_4k
       THEN all_download_buttons[2]
       ELSE IF Len(all_download_buttons) >= 1
       THEN all_download_buttons[1]
       ELSE download_element

ControlInit ==
    /\ dc_pc = "idle"
    /\ dc_controls \in ControlLists(MaxControls)
    /\ dc_upscale_4k \in BOOLEAN
    /\ dc_listing_fails \in BOOLEAN
    /\ dc_clicked = 0
    /\ BatchIdle
    /\ DeriveIdle
    /\ LocateIdle
    /\ SceneIdle
    /\ DurationIdle
    /\ GenerateIdle
    /\ WaitIdle
    /\ SessionIdle
    /\ PromptIdle
    /\ ConcurrentIdle
    /\ PolicyIdle
    /\ ImageIdle

\* lines 1810-1842: the selection and the click
ClickDownloadControl ==
    /\ dc_pc = "idle"
    /\ dc_clicked' = SelectDownloadControl(dc_controls, dc_upscale_4k,
                                           dc_listing_fails)
    /\ dc_pc' = "clicked"
    /\ UNCHANGED <<dc_controls, dc_upscale_4k, dc_listing_fails,
                   non_control_vars>>

ControlNext == ClickDownloadControl

SpecControl == ControlInit /\ [][ControlNext]_vars

(***************************************************************************)
(* Strings are sequences of characters, so that lower() and the substring  *)
(* test "in" are computed and not assumed.                                 *)
(***************************************************************************)
\* str.lower() on the characters the model uses
LowerChar(c) ==
    CASE c = "A" -> "a"
      [] c = "B" -> "b"
      [] c = "L" -> "l"
      [] c = "O" -> "o"
      [] OTHER -> c

Lower(s) == [k \in 1..Len(s) |-> LowerChar(s[k])]

\* needle in hay
Contains(needle, hay) ==
    \E k \in 0..(Len(hay) - Len(needle)) :
        SubSeq(hay, k + 1, k + Len(needle)) = needle

(***************************************************************************)
(* check_session_health, lines 2243-2289, and recover_session, lines       *)
(* 2291-2326.  The browser shows a URL; the site redirects a navigation    *)
(* to the login page when it no longer accepts the session.                *)
(***************************************************************************)
\* URLS["login"], line 86, without the host
login_url == <<"/", "l", "o", "g", "i", "n">>

\* the same page as some servers spell it
mixed_login_url == <<"/", "L", "o", "g", "i", "n">>

\* a page of the application
tool_url == <<"/", "a", "b">>

\* "login", lines 2255 and 2280
login_pattern == <<"l", "o", "g", "i", "n">>

Urls == {dashboard, tool_url, login_url, mixed_login_url}

IsLoginUrlMut(url) == Contains(login_pattern, url)

\* "login" in current_url.lower()
IsLoginUrl(url) == Contains(login_pattern, Lower(url))

\* driver.get(self.URLS["dashboard"]): where the browser ends up
Landing(b) == IF b.authenticated THEN dashboard ELSE login_url

\* the statements of check_session_health that can raise
CheckRaises == {"none", "url", "lookup", "get", "url_after"}

\* check_session_health, lines 2250-2289, for a browser, for what the
\* lookup of the logged-in indicators finds, and for the statement that
\* raises: the value returned, the navigations made and the URL left
CheckSessionHealth(b, indicators, raises) ==
    LET seen == [url_before |-> b.url, indicators |-> FALSE,
                 healthy |-> FALSE, navigations |-> 0, url_after |-> b.url,
                 raised |-> FALSE]
    IN IF raises = "url" THEN [seen EXCEPT !.raised = TRUE]
       ELSE IF IsLoginUrl(b.url) THEN seen
       ELSE IF raises = "lookup" THEN [seen EXCEPT !.raised = TRUE]
       ELSE IF indicators
       THEN [seen EXCEPT !.indicators = TRUE, !.healthy = TRUE]
       ELSE IF raises = "get"
       THEN [seen EXCEPT !.navigations = 1, !.raised = TRUE]
       ELSE IF raises = "url_after"
       THEN [seen EXCEPT !.navigations = 1, !.url_after = Landing(b),
                         !.raised = TRUE]
       ELSE [seen EXCEPT !.navigations = 1, !.url_after = Landing(b),
                         !.healthy = ~IsLoginUrl(Landing(b))]

SessionInit ==
    /\ ss_pc = "idle"
    /\ browser \in [url : Urls, authenticated : BOOLEAN]
    /\ ss = NoSession
    /\ BatchIdle
    /\ DeriveIdle
    /\ LocateIdle
    /\ SceneIdle
    /\ DurationIdle
    /\ GenerateIdle
    /\ WaitIdle
    /\ ControlIdle
    /\ PromptIdle
    /\ ConcurrentIdle
    /\ PolicyIdle
    /\ ImageIdle

\* a call of check_session_health on its own (line 2364)
SessionCheck ==
    /\ ss_pc = "idle"
    /\ \E indicators \in BOOLEAN, raises \in CheckRaises :
          LET seen == CheckSessionHealth(browser, indicators, raises) IN
          /\ ss' = [ss EXCEPT !.op = "check",
                              !.trace = Append(@, "check"),
                              !.checks = Append(@, seen),
                              !.result = IF seen.healthy THEN "healthy"
                                         ELSE "unhealthy"]
          /\ browser' = [browser EXCEPT !.url = seen.url_after]
    /\ ss_pc' = "returned"
    /\ UNCHANGED non_session_vars

\* the except of recover_session, lines 2324-2326
RecoverRaised(call) ==
    [call EXCEPT !.raised = TRUE, !.result = "needs_login"]

\* lines 2304-2305: driver.refresh(); the page comes back, or the login
\* page does when the site no longer accepts the session
RecoverRefresh ==
    /\ ss_pc = "idle"
    /\ LET refreshing == [ss EXCEPT !.op = "recover",
                                    !.trace = Append(@, "refresh")] IN
       \/ /\ \E url \in {browser.url} \cup
                        (IF browser.authenticated THEN {} ELSE {login_url}) :
                browser' = [browser EXCEPT !.url = url]
          /\ ss' = refreshing
          /\ ss_pc' = "first_check"
       \/ /\ browser' = browser
          /\ ss' = RecoverRaised(refreshing)
          /\ ss_pc' = "returned"
    /\ UNCHANGED non_session_vars

AfterFirstCheckMut(healthy) == "navigate"

\* lines 2307-2309: "if self.check_session_health(): return True"
AfterFirstCheck(healthy) == IF healthy THEN "returned" ELSE "navigate"

\* lines 2307-2309: the health check after the refresh
RecoverFirstCheck ==
    /\ ss_pc = "first_check"
    /\ \E indicators \in BOOLEAN, raises \in CheckRaises :
          LET seen == CheckSessionHealth(browser, indicators, raises)
              position == AfterFirstCheck(seen.healthy)
          IN /\ ss' = [ss EXCEPT !.trace = Append(@, "check"),
                                 !.checks = Append(@, seen),
                                 !.result = IF position = "returned"
                                            THEN "recovered" ELSE @]
             /\ browser' = [browser EXCEPT !.url = seen.url_after]
             /\ ss_pc' = position
    /\ UNCHANGED non_session_vars

\* lines 2313-2314: driver.get(self.URLS["dashboard"])
RecoverNavigate ==
    /\ ss_pc = "navigate"
    /\ LET navigating == [ss EXCEPT !.trace = Append(@, "navigate")] IN
       \/ /\ browser' = [browser EXCEPT !.url = Landing(browser)]
          /\ ss' = navigating
          /\ ss_pc' = "second_check"
       \/ /\ browser' = browser
          /\ ss' = RecoverRaised(navigating)
          /\ ss_pc' = "returned"
    /\ UNCHANGED non_session_vars

\* lines 2316-2322: the health check after the navigation, and the return
RecoverSecondCheck ==
    /\ ss_pc = "second_check"
    /\ \E indicators \in BOOLEAN, raises \in CheckRaises :
          LET seen == CheckSessionHealth(browser, indicators, raises) IN
          /\ ss' = [ss EXCEPT !.trace = Append(@, "check"),
                              !.checks = Append(@, seen),
                              !.result = IF seen.healthy THEN "recovered"
                                         ELSE "needs_login"]
          /\ browser' = [browser EXCEPT !.url = seen.url_after]
    /\ ss_pc' = "returned"
    /\ UNCHANGED non_session_vars

SessionNext ==
    \/ SessionCheck
    \/ RecoverRefresh
    \/ RecoverFirstCheck
    \/ RecoverNavigate
    \/ RecoverSecondCheck

SpecSession == SessionInit /\ [][SessionNext]_vars

(***************************************************************************)
(* enter_motion_prompt, lines 1004-1066, for a motion description that is  *)
(* a string.  What the field holds after send_keys is the page's doing:    *)
(* any string.                                                             *)
(***************************************************************************)
PromptChars == {"a", "A", "b"}

RECURSIVE Strings(_)
Strings(n) ==
    IF n = 0 THEN {<<>>}
    ELSE Strings(n - 1) \cup
         {Append(s, c) : s \in {t \in Strings(n - 1) : Len(t) = n - 1},
                         c \in PromptChars}

\* the motion descriptions, and what the field can hold
Texts == Strings(MaxText)

FieldTexts == Strings(MaxText + 1)

NeedsFallbackMut(motion_description, entered_text) ==
    ~Contains(motion_description, entered_text)

\* line 1039, negated: motion_description.lower() in entered_text.lower()
NeedsFallback(motion_description, entered_text) ==
    ~Contains(Lower(motion_description), Lower(entered_text))

PromptInit ==
    /\ pr_pc = "idle"
    /\ \E motion_description \in Texts :
          pr = [NoPrompt EXCEPT !.motion_description = motion_description]
    /\ BatchIdle
    /\ DeriveIdle
    /\ LocateIdle
    /\ SceneIdle
    /\ DurationIdle
    /\ GenerateIdle
    /\ WaitIdle
    /\ ControlIdle
    /\ SessionIdle
    /\ ConcurrentIdle
    /\ PolicyIdle
    /\ ImageIdle

PromptReturn(call, value) ==
    [call EXCEPT !.result = IF value THEN "success" ELSE "failure"]

\* lines 1025-1027 and 1064-1066: the field is looked up; False when it is
\* not found
PromptLocate ==
    /\ pr_pc = "idle"
    /\ \E found \in BOOLEAN :
          IF found
          THEN /\ pr' = [pr EXCEPT !.found = TRUE]
               /\ pr_pc' = "type"
          ELSE /\ pr' = PromptReturn(pr, FALSE)
               /\ pr_pc' = "returned"
    /\ UNCHANGED non_prompt_vars

\* lines 1028-1041: clear, send_keys, the field is read and compared with
\* the argument: True when it contains it; an exception of a driver call
\* returns False (lines 1061-1063)
PromptType ==
    /\ pr_pc = "type"
    /\ \/ \E entered_text \in FieldTexts :
             LET typed == [pr EXCEPT !.entered_text = entered_text,
                                     !.content = entered_text,
                                     !.verified = @ + 1]
             IN IF NeedsFallback(pr.motion_description, entered_text)
                THEN /\ pr' = typed
                     /\ pr_pc' = "fallback"
                ELSE /\ pr' = PromptReturn(typed, TRUE)
                     /\ pr_pc' = "returned"
       \/ /\ pr' = PromptReturn([pr EXCEPT !.raised = TRUE], FALSE)
          /\ pr_pc' = "returned"
    /\ UNCHANGED non_prompt_vars

\* lines 1042-1059: the script sets textContent to the argument and
\* dispatches an input event; True without reading the field again; an
\* exception of execute_script returns False (lines 1061-1063)
PromptFallback ==
    /\ pr_pc = "fallback"
    /\ \/ /\ pr' = PromptReturn(
                       [pr EXCEPT !.scripts = @ + 1,
                                  !.content = pr.motion_description], TRUE)
          /\ pr_pc' = "returned"
       \/ /\ pr' = PromptReturn([pr EXCEPT !.scripts = @ + 1,
                                           !.raised = TRUE], FALSE)
          /\ pr_pc' = "returned"
    /\ UNCHANGED non_prompt_vars

PromptNext ==
    \/ PromptLocate
    \/ PromptType
    \/ PromptFallback

SpecPrompt == PromptInit /\ [][PromptNext]_vars

(***************************************************************************)
(* Two processes running process_all_scenes on the same job and the same   *)
(* output directory.  Nothing in the code takes a lock: each process reads *)
(* progress.json once (line 2125), keeps completed_scenes and              *)
(* failed_scenes in its own memory and writes them back whole at each      *)
(* save (lines 2215-2220, 2467-2473).  The report of a run is followed in  *)
(* the batch specification; here a process keeps the two lists it saves.   *)
(***************************************************************************)
RunIds == {1, 2}

\* what one call of the workflow can return and leave as {scene_id}.mp4
WorkflowResults ==
    {ProcessSingleSceneWithData(steps, page) :
        steps \in StepOutcomes, page \in Pages}

ConcurrentInit ==
    /\ cc_job \in Jobs
    /\ cc_images \in SUBSET SceneIdsOf(cc_job)
    /\ cc_file = Absent
    /\ cc_dir = [s \in SceneIdsOf(cc_job) |-> NoFile]
    /\ cc_run = [p \in RunIds |-> NoRun]
    /\ cc_writer = 0
    /\ cc_saved = [p \in RunIds |-> {}]
    /\ BatchIdle
    /\ DeriveIdle
    /\ LocateIdle
    /\ SceneIdle
    /\ DurationIdle
    /\ GenerateIdle
    /\ WaitIdle
    /\ ControlIdle
    /\ SessionIdle
    /\ PromptIdle
    /\ PolicyIdle
    /\ ImageIdle

\* lines 2073-2139
RunStart(p) ==
    /\ cc_run[p].pc = "idle"
    /\ cc_run' = [cc_run EXCEPT ![p] =
          IF Len(cc_job) = 0
          THEN [@ EXCEPT !.pc = "error"]
          ELSE [@ EXCEPT
                  !.pc = "loop",
                  !.processable_scenes = ProcessableScenes(cc_job),
                  !.loaded = LoadProgress(cc_file),
                  !.completed_scenes = LoadProgress(cc_file).completed,
                  !.failed_scenes =
                      ClearFailed(LoadProgress(cc_file).failed)]]
    /\ UNCHANGED <<cc_job, cc_images, cc_file, cc_dir, cc_writer, cc_saved>>
    /\ UNCHANGED non_concurrent_vars

\* one iteration up to the call of the workflow: lines 2141-2190
RunVisit(p) ==
    /\ cc_run[p].pc = "loop"
    /\ cc_run[p].idx < Len(cc_run[p].processable_scenes)
    /\ LET run == cc_run[p]
           scene_id == run.processable_scenes[run.idx + 1].scene_id
       IN cc_run' = [cc_run EXCEPT ![p] =
             IF SkipScene(scene_id, run.completed_scenes, cc_dir[scene_id])
             THEN [@ EXCEPT !.idx = NextIndex(run.idx)]
             ELSE IF scene_id \notin cc_images
                  THEN [@ EXCEPT
                          !.completed_scenes =
                              AfterSkipTest(scene_id, run.completed_scenes),
                          !.failed_scenes = Append(@, scene_id),
                          !.idx = NextIndex(run.idx)]
                  ELSE [@ EXCEPT
                          !.completed_scenes =
                              AfterSkipTest(scene_id, run.completed_scenes),
                          !.pc = "process"]]
    /\ UNCHANGED <<cc_job, cc_images, cc_file, cc_dir, cc_writer, cc_saved>>
    /\ UNCHANGED non_concurrent_vars

\* the call of the workflow and the recording of its outcome: lines 2192-2212
RunProcess(p) ==
    /\ cc_run[p].pc = "process"
    /\ LET run == cc_run[p]
           scene_id == run.processable_scenes[run.idx + 1].scene_id
       IN \E r \in WorkflowResults :
             /\ cc_dir' = IF r.file # NoFile
                          THEN [cc_dir EXCEPT ![scene_id] = r.file]
                          ELSE cc_dir
             /\ cc_run' = [cc_run EXCEPT ![p] =
                   IF r.success
                   THEN [@ EXCEPT !.completed_scenes = Append(@, scene_id),
                                  !.own = @ \cup {scene_id},
                                  !.pc = "save"]
                   ELSE [@ EXCEPT !.failed_scenes = Append(@, scene_id),
                                  !.pc = "save"]]
    /\ UNCHANGED <<cc_job, cc_images, cc_file, cc_writer, cc_saved>>
    /\ UNCHANGED non_concurrent_vars

\* _save_progress: open(progress_file, 'w'), line 2470
RunSaveOpen(p) ==
    /\ cc_run[p].pc = "save"
    /\ cc_file' = Truncated
    /\ cc_run' = [cc_run EXCEPT ![p].pc = "save_write"]
    /\ UNCHANGED <<cc_job, cc_images, cc_dir, cc_writer, cc_saved>>
    /\ UNCHANGED non_concurrent_vars

SavedCompletedMut(p) ==
    cc_run[p].completed_scenes
        \o (IF cc_writer \in RunIds \ {p}
            THEN SelectSeq(cc_run[cc_writer].completed_scenes,
                           LAMBDA s : ~InList(s, cc_run[p].completed_scenes))
            ELSE <<>>)

\* "completed": completed_scenes, line 2216: the list of the saving process
SavedCompleted(p) == cc_run[p].completed_scenes

\* json.dump and the close, line 2471, then the end of the loop body
RunSaveDump(p) ==
    /\ cc_run[p].pc = "save_write"
    /\ LET run == cc_run[p]
           scene_id == run.processable_scenes[run.idx + 1].scene_id
       IN /\ cc_file' = Json([completed |-> SavedCompleted(p),
                              failed |-> run.failed_scenes,
                              last_processed |-> scene_id])
          /\ cc_saved' = [cc_saved EXCEPT ![p] = @ \cup ToSet(SavedCompleted(p))]
          /\ cc_run' = [cc_run EXCEPT ![p].idx = NextIndex(run.idx),
                                      ![p].pc = "loop"]
    /\ cc_writer' = p
    /\ UNCHANGED <<cc_job, cc_images, cc_dir>>
    /\ UNCHANGED non_concurrent_vars

\* lines 2232-2241
RunFinish(p) ==
    /\ cc_run[p].pc = "loop"
    /\ cc_run[p].idx >= Len(cc_run[p].processable_scenes)
    /\ cc_run' = [cc_run EXCEPT ![p].pc =
                     IF Len(cc_run[p].processable_scenes) = 0
                     THEN "raised" ELSE "returned"]
    /\ UNCHANGED <<cc_job, cc_images, cc_file, cc_dir, cc_writer, cc_saved>>
    /\ UNCHANGED non_concurrent_vars

ConcurrentNext ==
    \E p \in RunIds :
        \/ RunStart(p)
        \/ RunVisit(p)
        \/ RunProcess(p)
        \/ RunSaveOpen(p)
        \/ RunSaveDump(p)
        \/ RunFinish(p)

SpecConcurrent == ConcurrentInit /\ [][ConcurrentNext]_vars

(***************************************************************************)
(* _determine_video_duration as a function of its scene_id argument, lines *)
(* 2945-3075: the index is taken from the text of the id (lines 2962-2975),*)
(* the narration file is searched under that index (2982-3038) and its     *)
(* length is mapped (3041-3071).  Everything after "default_duration = 5"  *)
(* is inside one try whose handler returns the default (3073-3075).  The   *)
(* scene_data argument is not read.                                        *)
(***************************************************************************)
\* the characters of a token of a scene id
Letters(token) ==
    CASE token = "scene_" -> <<"s", "c", "e", "n", "e", "_">>
      [] token = "_event_" -> <<"_", "e", "v", "e", "n", "t", "_">>
      [] token = "scene" -> <<"s", "c", "e", "n", "e">>
      [] token = "intro" -> <<"i", "n", "t", "r", "o">>
      [] OTHER -> <<token>>

\* a scene id in characters
RECURSIVE Spelled(_)
Spelled(id) == IF id = <<>> THEN <<>>
               ELSE Letters(Head(id)) \o Spelled(Tail(id))

\* the greatest scene index of the ids followed
MaxIndex == 2

EventSceneIds == {EventId(i, j) : i \in 0..MaxIndex, j \in 0..1}

\* the ids of the batch, and ids that carry no index
PolicySceneIds ==
    {Spelled(id) : id \in EventSceneIds \cup {SceneId(i) : i \in 0..MaxIndex}
                             \cup {<<"scene_">>, <<"scene_", "x">>, <<"scene">>,
                                   <<"intro">>, <<"intro", "_", "1">>,
                                   <<"scene_", "_", "1">>}}

\* scene_id.startswith(prefix), line 2963
StartsWith(s, prefix) ==
    /\ Len(s) >= Len(prefix)
    /\ SubSeq(s, 1, Len(prefix)) = prefix

\* scene_id.split("_"), line 2966
RECURSIVE Split(_, _)
Split(s, part) ==
    IF s = <<>> THEN <<part>>
    ELSE IF Head(s) = "_" THEN <<part>> \o Split(Tail(s), <<>>)
    ELSE Split(Tail(s), Append(part, Head(s)))

\* int(text) does not raise ValueError: a non-empty run of decimal digits
IsInt(text) ==
    /\ text # <<>>
    /\ \A k \in 1..Len(text) : \E d \in 1..10 : DigitChar[d] = text[k]

RECURSIVE IntOf(_)
IntOf(text) ==
    IF text = <<>> THEN 0
    ELSE 10 * IntOf(SubSeq(text, 1, Len(text) - 1))
            + (CHOOSE d \in 0..9 : DigitChar[d + 1] = text[Len(text)])

\* lines 2962-2975: the index, or NoneIdx when the function returns the
\* default because there is none
SceneIndex(scene_id) ==
    IF StartsWith(scene_id, Letters("scene_"))
    THEN LET parts == Split(scene_id, <<>>)
         IN IF Len(parts) >= 2 /\ IsInt(parts[2]) THEN IntOf(parts[2])
            ELSE NoneIdx
    ELSE NoneIdx

\* what the search and the measurement can give for one index
PolicyFiles ==
    {NoNarrationFile} \cup
    {[found |-> TRUE, length |-> l] :
        l \in {NoDuration, ShortNarration, ShortNarration + 1,
               MediumNarration + 1}}

OnExceptionMut == [pc |-> "raised", result |-> 0]

\* lines 3073-3075: "except Exception" returns default_duration
OnException == [pc |-> "returned", result |-> default_duration]

PolicyInit ==
    /\ vd_scene_id \in PolicySceneIds
    /\ vd_files \in [0..MaxIndex -> PolicyFiles]
    /\ vd_raises \in BOOLEAN
    /\ vd_pc = "call"
    /\ vd_scene_index = NoneIdx
    /\ vd_result = 0
    /\ BatchIdle
    /\ DeriveIdle
    /\ LocateIdle
    /\ SceneIdle
    /\ DurationIdle
    /\ GenerateIdle
    /\ WaitIdle
    /\ ControlIdle
    /\ SessionIdle
    /\ PromptIdle
    /\ ConcurrentIdle
    /\ ImageIdle

\* lines 2960-2975
PolicyParse ==
    /\ vd_pc = "call"
    /\ vd_scene_index' = SceneIndex(vd_scene_id)
    /\ IF SceneIndex(vd_scene_id) = NoneIdx
       THEN /\ vd_pc' = "returned"
            /\ vd_result' = default_duration
       ELSE /\ vd_pc' = "search"
            /\ UNCHANGED vd_result
    /\ UNCHANGED <<vd_scene_id, vd_files, vd_raises, non_policy_vars>>

\* lines 2982-3038, and the handler when something in them raises
PolicySearch ==
    /\ vd_pc = "search"
    /\ IF vd_raises
       THEN /\ vd_pc' = OnException.pc
            /\ vd_result' = OnException.result
       ELSE /\ vd_pc' = "measure"
            /\ UNCHANGED vd_result
    /\ UNCHANGED <<vd_scene_id, vd_files, vd_raises, vd_scene_index,
                   non_policy_vars>>

\* lines 3041-3071
PolicyMap ==
    /\ vd_pc = "measure"
    /\ vd_result' = DetermineVideoDuration(vd_files[vd_scene_index])
    /\ vd_pc' = "returned"
    /\ UNCHANGED <<vd_scene_id, vd_files, vd_raises, vd_scene_index,
                   non_policy_vars>>

PolicyNext ==
    \/ PolicyParse
    \/ PolicySearch
    \/ PolicyMap

SpecPolicy == PolicyInit /\ [][PolicyNext]_vars

(***************************************************************************)
(* The lookup of the source image of a work item, lines 2172-2190 of       *)
(* process_all_scenes.  A png file of the job directory is the image of    *)
(* one scene or event: its name is that scene_id followed by a tag and     *)
(* ".png".  The pattern is matched against the characters of the names;    *)
(* the files have distinct modification times.                             *)
(***************************************************************************)
\* the png files in the job directory
MaxFiles == 3

\* the work items whose images are in the directory
ImageSceneIds == {SceneId(1), SceneId(10), EventId(1, 0)}

\* scene_1.png, scene_1_flux.png, scene_1_getimg.png
ImageTags == {<<>>, <<"_", "f", "l", "u", "x">>,
              <<"_", "g", "e", "t", "i", "m", "g">>}

ImageFiles == [scene : ImageSceneIds, suffix : ImageTags]

Png == <<".", "p", "n", "g">>

\* the file name, in characters
ImageName(file) == Spelled(file.scene) \o file.suffix \o Png

\* the directories: up to MaxFiles distinct files, oldest first
RECURSIVE Directories(_)
Directories(n) ==
    IF n = 0 THEN {<<>>}
    ELSE Directories(n - 1) \cup
         {Append(d, f) : d \in {e \in Directories(n - 1) : Len(e) = n - 1},
                         f \in ImageFiles}

NoRepeat(d) == \A a, b \in 1..Len(d) : a # b => d[a] # d[b]

\* glob: name matches f"{scene_id}*.png", line 2176
GlobMatches(name, scene_id) ==
    /\ Len(name) >= Len(Spelled(scene_id)) + Len(Png)
    /\ StartsWith(name, Spelled(scene_id))
    /\ SubSeq(name, Len(name) - Len(Png) + 1, Len(name)) = Png

\* line 2177: glob.glob(pattern)
Glob(dir, scene_id) ==
    {dir[k] : k \in {j \in 1..Len(dir) : GlobMatches(ImageName(dir[j]), scene_id)}}

\* line 2181: max(matches, key=os.path.getmtime)
MostRecent(dir, matches) ==
    dir[CHOOSE k \in 1..Len(dir) :
           /\ dir[k] \in matches
           /\ \A j \in 1..Len(dir) : dir[j] \in matches => j <= k]

\* line 2184: the legacy file name
Legacy(scene_id) == [scene |-> scene_id,
                     suffix |-> <<"_", "g", "e", "t", "i", "m", "g">>]

ImageInit ==
    /\ im_scene_id \in ImageSceneIds
    /\ im_dir \in {d \in Directories(MaxFiles) : NoRepeat(d)}
    /\ im_pc = "glob"
    /\ im_matches = {}
    /\ im_path = NoImage
    /\ BatchIdle
    /\ DeriveIdle
    /\ LocateIdle
    /\ SceneIdle
    /\ DurationIdle
    /\ GenerateIdle
    /\ WaitIdle
    /\ ControlIdle
    /\ SessionIdle
    /\ PromptIdle
    /\ ConcurrentIdle
    /\ PolicyIdle

\* lines 2176-2177
ImageGlob ==
    /\ im_pc = "glob"
    /\ im_matches' = Glob(im_dir, im_scene_id)
    /\ im_pc' = "choose"
    /\ UNCHANGED <<im_scene_id, im_dir, im_path, non_image_vars>>

\* lines 2179-2184
ImageChoose ==
    /\ im_pc = "choose"
    /\ im_path' = IF im_matches # {} THEN MostRecent(im_dir, im_matches)
                  ELSE Legacy(im_scene_id)
    /\ im_pc' = "exists"
    /\ UNCHANGED <<im_scene_id, im_dir, im_matches, non_image_vars>>

\* lines 2186-2190: os.path.exists(image_path)
ImageCheck ==
    /\ im_pc = "exists"
    /\ im_pc' = IF InList(im_path, im_dir) THEN "found" ELSE "not_found"
    /\ UNCHANGED <<im_scene_id, im_dir, im_matches, im_path, non_image_vars>>

ImageNext ==
    \/ ImageGlob
    \/ ImageChoose
    \/ ImageCheck

SpecImage == ImageInit /\ [][ImageNext]_vars

(***************************************************************************)
(* Properties.                                                             *)
(***************************************************************************)
InRun == Running \cup {"returned"}

IdAt(k) == processable_scenes[k].scene_id

\* work item k has been taken up by the loop in this run
Visited(k) == k <= idx \/ (k = idx + 1 /\ pc \in {"process", "save", "save_write"})

\* the outcome of work item k is in the report
Decided(k) == k <= idx \/ (k = idx + 1 /\ pc \in {"save", "save_write"})

ImageNotFoundIds == {results.failed[k].scene : k \in
                        {j \in 1..Len(results.failed) :
                            results.failed[j].error = "Image not found"}}

\* the scenes the loaded record lists as completed and whose output file
\* existed and was larger than 100,000 bytes when the run started
HonouredAtStart == {s \in SceneIds : /\ InList(s, progress_data.completed)
                                     /\ start_dir[s] # NoFile
                                     /\ start_dir[s] > MinViableSize}

\* C1: a failing scene (workflow failure or missing image) never stops the
\* batch: when the run returns, every processable scene has been taken up
\* (it is in completed, failed or skipped), and every scene whose workflow
\* returned failure or whose image was missing is in the failed list.
C1_ErrorIsolation ==
    pc = "returned" =>
        /\ SceneIds = ToSet(results.completed) \cup FailedIds
                         \cup ToSet(results.skipped)
        /\ \A k \in 1..Len(attempted) :
              ~attempted[k].success => attempted[k].scene \in FailedIds
        /\ \A s \in SceneIds :
              (s \notin image_files /\ ~InList(s, results.skipped))
                  => s \in FailedIds

C1_Witness ==
    /\ pc = "returned"
    /\ Len(processable_scenes) >= 2
    /\ Len(attempted) >= 2
    /\ ~attempted[1].success
    /\ attempted[1].scene = IdAt(1)
    /\ attempted[2].scene = IdAt(2)
    /\ IdAt(1) \in FailedIds

\* C2: after every scene that was not skipped, and before the next one
\* starts, the progress file holds the record with that scene's outcome
\* (completed and failed as in memory, last_processed that scene).
C2_SavedAfterEveryScene ==
    (pc = "loop" /\ idx > 0 /\ ~InList(IdAt(idx), results.skipped)) =>
        progress_file = Json([completed |-> completed_scenes,
                              failed |-> failed_scenes,
                              last_processed |-> IdAt(idx)])

\* C3: a scene is in the completed list of the report only if its output
\* file {scene_id}.mp4 exists and has at least the minimum size.
C3_CompletedOnlyWithArtifact ==
    pc \in InRun =>
        \A k \in 1..Len(results.completed) :
            /\ output_dir[results.completed[k]] # NoFile
            /\ output_dir[results.completed[k]] >= MinViableSize

\* C4: after the process was killed, the record the next run loads still
\* lists as completed every scene the last finished save listed, except at
\* most the scene that was in flight.
C4_KillLosesAtMostInflight ==
    (pc \in Running /\ prev.ended = "killed") =>
        (prev.recorded \ {prev.inflight}) \subseteq ToSet(progress_data.completed)

\* C5 (as claimed): when the run returns, the workflow has been invoked for
\* exactly the scenes that were not honoured as completed at the start, and
\* the honoured ones are the skipped ones.
C5_ExactlyRemainingAttempted ==
    pc = "returned" =>
        /\ AttemptedIds = SceneIds \ HonouredAtStart
        /\ ToSet(results.skipped) = HonouredAtStart

\* C5 (amended): the honoured scenes are skipped and never handed to the
\* workflow; each remaining scene is handed to the workflow exactly once if
\* its source image exists and is failed with "Image not found" otherwise.
C5_RemainingAttemptedOrImageNotFound ==
    pc = "returned" =>
        /\ ToSet(results.skipped) = HonouredAtStart
        /\ AttemptedIds = (SceneIds \ HonouredAtStart) \cap image_files
        /\ Len(attempted) = Cardinality(AttemptedIds)
        /\ ImageNotFoundIds = (SceneIds \ HonouredAtStart) \ image_files

C5_Witness ==
    /\ pc = "returned"
    /\ IdAt(1) \in HonouredAtStart
    /\ Len(processable_scenes) = 2
    /\ AttemptedIds = {IdAt(2)}

\* C6: if the previous run returned with every processable scene completed
\* and every output file is still larger than the threshold, this run
\* reports every scene as skipped, none completed or failed, and invokes the
\* workflow for none.
C6_Idempotence ==
    (/\ pc = "returned"
     /\ prev.ended = "returned"
     /\ ToSet(prev.completed) = SceneIds
     /\ \A s \in SceneIds : start_dir[s] > MinViableSize) =>
        /\ results.skipped = [k \in 1..Len(processable_scenes) |-> IdAt(k)]
        /\ results.completed = <<>>
        /\ results.failed = <<>>
        /\ attempted = <<>>

C6_Witness ==
    /\ pc = "returned"
    /\ prev.ended = "returned"
    /\ Len(prev.completed) = 2
    /\ ToSet(prev.completed) = SceneIds
    /\ \A s \in SceneIds : start_dir[s] > MinViableSize
    /\ Len(results.skipped) = 2

\* C7: a scene the loaded record lists as completed whose output file is
\* missing or smaller than 100,000 bytes is not skipped: it leaves the
\* completed list (it is there again only by completing in this run) and it
\* is processed again, so it gets an outcome of this run.
C7_InvalidArtifactReprocessed ==
    pc \in InRun =>
        \A k \in 1..Len(processable_scenes) :
            (/\ Visited(k)
             /\ InList(IdAt(k), progress_data.completed)
             /\ (start_dir[IdAt(k)] = NoFile
                    \/ start_dir[IdAt(k)] < MinViableSize)) =>
                /\ ~InList(IdAt(k), results.skipped)
                /\ InList(IdAt(k), completed_scenes)
                      => InList(IdAt(k), results.completed)
                /\ Decided(k) =>
                      IdAt(k) \in ToSet(results.completed) \cup FailedIds

C7_Witness ==
    /\ pc = "returned"
    /\ Len(processable_scenes) = 2
    /\ InList(IdAt(1), progress_data.completed)
    /\ InList(IdAt(2), progress_data.completed)
    /\ start_dir[IdAt(1)] = NoFile
    /\ start_dir[IdAt(2)] = MinViableSize - 1
    /\ AttemptedIds = SceneIds

\* C8 (as claimed): a scene listed as completed whose output file has at
\* least 100,000 bytes is skipped.
C8_AtLeastMinimumSkipped ==
    pc \in InRun =>
        \A k \in 1..Len(processable_scenes) :
            (/\ Visited(k)
             /\ InList(IdAt(k), progress_data.completed)
             /\ start_dir[IdAt(k)] >= MinViableSize) =>
                InList(IdAt(k), results.skipped)

\* C8 (amended): a scene listed as completed is skipped when its output
\* file is strictly larger than 100,000 bytes; a file of exactly 100,000
\* bytes counts as undersized and the scene is processed again.
C8_StrictlyLargerSkipped ==
    pc \in InRun =>
        \A k \in 1..Len(processable_scenes) :
            (Visited(k) /\ InList(IdAt(k), progress_data.completed)) =>
                /\ start_dir[IdAt(k)] > MinViableSize
                      => InList(IdAt(k), results.skipped)
                /\ start_dir[IdAt(k)] = MinViableSize =>
                      /\ ~InList(IdAt(k), results.skipped)
                      /\ Decided(k) =>
                            IdAt(k) \in ToSet(results.completed) \cup FailedIds

C8_Witness ==
    /\ pc = "returned"
    /\ Len(processable_scenes) = 2
    /\ InList(IdAt(1), progress_data.completed)
    /\ InList(IdAt(2), progress_data.completed)
    /\ start_dir[IdAt(1)] = MinViableSize
    /\ start_dir[IdAt(2)] = MinViableSize + 1
    /\ IdAt(1) \in AttemptedIds
    /\ results.skipped = <<IdAt(2)>>

ItemsOf(i) == {k \in 1..Len(processable_scenes) :
                  processable_scenes[k].scene_index = i}

\* C10 (as claimed): a scene with a null scene_desc and no events has no
\* work item, and every other scene has at least one.
C10_OnlyDescriptionlessWithoutEventsExcluded ==
    pc \in InRun \cup {"raised"} =>
        \A n \in 1..Len(json_data) :
            IF json_data[n].scene_desc = "null" /\ json_data[n].events = 0
            THEN ItemsOf(n - 1) = {}
            ELSE ItemsOf(n - 1) # {}

\* C10 (amended): a scene with a null scene_desc has no work item, whether
\* or not it has events; every scene with a scene_desc has at least one;
\* a later run derives the same list as the run before it.
C10_EveryDescriptionlessExcluded ==
    pc \in InRun \cup {"raised"} =>
        /\ \A n \in 1..Len(json_data) :
              IF json_data[n].scene_desc = "null"
              THEN ItemsOf(n - 1) = {}
              ELSE ItemsOf(n - 1) # {}
        /\ prev.ended \in {"returned", "raised", "killed"}
              => processable_scenes = prev.derived

C10_Witness ==
    /\ pc = "returned"
    /\ prev.ended = "returned"
    /\ Len(json_data) = 2
    /\ json_data[1].scene_desc = "null"
    /\ json_data[1].events > 0
    /\ json_data[2].scene_desc = "text"
    /\ ItemsOf(0) = {}
    /\ ItemsOf(1) # {}

(***************************************************************************)
(* C11.  The items derived from one scene of the job.                      *)
(***************************************************************************)
\* the items of scene i among those derived so far, in their order
DerivedOf(i) == SelectSeq(dv_items, LAMBDA it : it.scene_index = i)

\* one item per event, in order, with the ids scene_{i}_event_{j}
OneItemPerEvent(i, n) ==
    /\ Len(DerivedOf(i)) = n
    /\ \A j \in 0..(n - 1) :
          /\ DerivedOf(i)[j + 1].event_index = j
          /\ DerivedOf(i)[j + 1].scene_id =
                <<"scene_">> \o Str(i) \o <<"_event_">> \o Str(j)
    /\ \A k \in 1..Len(dv_items) :
          dv_items[k].scene_id # <<"scene_">> \o Str(i)

\* C11 as stated: every enumerated scene with a non-empty events list,
\* whatever its scene_desc is, has exactly one item per event, with the ids
\* scene_{i}_event_{j} for j = 0..len(events)-1 in order, and its own id
\* scene_{i} is not among the items.
C11_EveryEventListEnqueued ==
    \A i \in 0..(dv_i - 1) :
        dv_scenes[i + 1].events > 0
            => OneItemPerEvent(i, dv_scenes[i + 1].events)

\* C11 amended: an enumerated scene with a non-null scene_desc and a
\* non-empty events list has exactly one item per event, with the ids
\* scene_{i}_event_{j} for j = 0..len(events)-1 in order, and its own id is
\* not among the items; a scene with a null scene_desc has no item at all,
\* events or not.
C11_EventListOfDescribedSceneEnqueued ==
    \A i \in 0..(dv_i - 1) :
        /\ (dv_scenes[i + 1].scene_desc # "null" /\ dv_scenes[i + 1].events > 0)
              => OneItemPerEvent(i, dv_scenes[i + 1].events)
        /\ dv_scenes[i + 1].scene_desc = "null" => Len(DerivedOf(i)) = 0

\* the job has been enumerated to its end and held a described scene with
\* three events and a narration-only scene with events
C11_Witness ==
    /\ dv_i = Len(dv_scenes)
    /\ \E i \in 0..(dv_i - 1) :
          /\ dv_scenes[i + 1].scene_desc # "null"
          /\ dv_scenes[i + 1].events = 3
          /\ Len(DerivedOf(i)) = 3
    /\ \E i \in 0..(dv_i - 1) :
          /\ dv_scenes[i + 1].scene_desc = "null"
          /\ dv_scenes[i + 1].events > 0

(***************************************************************************)
(* C12.  The locator.                                                      *)
(***************************************************************************)
\* selector k was waited for from its turn on for the whole wait_time and
\* its element was present at no poll of that window
FailedInItsWindow(k) ==
    /\ k <= Len(lc_windows)
    /\ lc_windows[k].selector = k
    /\ lc_windows[k].to = lc_windows[k].from + WaitPolls
    /\ lc_windows[k].from = IF k = 1 THEN 0 ELSE lc_windows[k - 1].to
    /\ selectors[k] > lc_windows[k].to

InTrace(step) == \E k \in 1..Len(wf.trace) : wf.trace[k] = step

\* the call returned False right after that step
AbortedAt(step) ==
    /\ wf_pc = "returned"
    /\ wf.result = "failure"
    /\ Len(wf.trace) > 0
    /\ wf.trace[Len(wf.trace)] = step

(***************************************************************************)
(* C14.  Concatenation.                                                    *)
(***************************************************************************)
\* C14 as stated: when create_concatenated_videos has run for a first scene
\* with an intro clip in one of the searched directories (and a working
\* media library), {scene_id}_with_intro.mp4 has been written, whatever
\* is_final_scene is and whether or not there is an outro clip; for a scene
\* that is neither first nor last no concatenated file has been written.
C14_IntroProducedForFirstScene ==
    InTrace("concat") =>
        /\ (wf.scene.is_first_scene /\ wf.clips.intro /\ wf.clips.media)
              => "with_intro" \in wf.concatenated
        /\ (~wf.scene.is_first_scene /\ ~wf.scene.is_final_scene)
              => wf.concatenated = {}

(***************************************************************************)
(* C15.  The upload step.                                                  *)
(***************************************************************************)
\* C15 as stated: access_upload_interface called with an image path fails
\* when the path does not exist, and reports success only if the file was
\* sent to a file input.
C15_UploadFailsWithoutFile ==
    InTrace("upload") =>
        /\ ~wf.scene.image_exists => ~wf.upload.ok
        /\ wf.upload.ok => wf.upload.supplied

(***************************************************************************)
(* C16.  Escalation to a new login.                                        *)
(***************************************************************************)
\* C16 as stated: when the health check fails and recover_session reports
\* that a new login is needed, the login procedure is run before any other
\* step of the scene, whatever is_logged_in was; the scene goes on only if
\* that login succeeded and has failed otherwise.
C16_ReloginRunsWhenNeeded ==
    /\ wf.session # "relogin_skipped"
    /\ wf.session = "relogin_ran" => is_logged_in
    /\ wf.session = "relogin_failed" => AbortedAt("health")

(***************************************************************************)
(* C17.  The report of the batch.                                          *)
(***************************************************************************)
\* C17 as stated: process_all_scenes never raises, and what it returns
\* holds the lists completed, failed and skipped, for every job.
C17_AlwaysReturnsReport ==
    /\ pc # "raised"
    /\ pc \in {"returned", "error"} =>
          {"completed", "failed", "skipped"} \subseteq DOMAIN results

(***************************************************************************)
(* C18.  The default motion prompt.                                        *)
(***************************************************************************)
\* C18 as stated: for a scene whose motion description is absent or null,
\* the prompt step is given the default prompt, and the scene does not fail
\* because of the missing description (it may fail because the page does
\* not take the prompt).
C18_DefaultPromptForMissingDescription ==
    (InTrace("prompt") /\ wf.scene.motion_desc \in {"absent", "null"}) =>
        wf.prompt \in {"default", "failed"}

(***************************************************************************)
(* C19.  The order of the steps.                                           *)
(***************************************************************************)
StepOrder == <<"health", "video_mode", "select_asset", "upload", "aspect",
               "prompt", "duration", "generate", "wait", "concat">>

\* C19: the steps of a call are run in the order health check, video mode,
\* upload surface, upload, aspect ratio, motion prompt, duration,
\* generation, wait and download, concatenation, none twice and none
\* skipped before a later one; when the upload, the prompt, the generation
\* or the wait fails the call returns False and that step is its last; so
\* generation has only been triggered after a successful upload and a
\* successful prompt entry of the same call, and a successful call has run
\* every step up to the wait.
C19_FixedOrderAndAbort ==
    /\ Len(wf.trace) <= Len(StepOrder)
    /\ \A k \in 1..Len(wf.trace) : wf.trace[k] = StepOrder[k]
    /\ (InTrace("upload") /\ ~wf.upload.ok) => AbortedAt("upload")
    /\ wf.prompt \in {"failed", "raised"} => AbortedAt("prompt")
    /\ wf.generate = "failed" => AbortedAt("generate")
    /\ wf.download = "failed" => AbortedAt("wait")
    /\ InTrace("generate") =>
          /\ wf.upload.ok
          /\ wf.prompt \in {"default", "text"}
    /\ wf.result = "success" => Len(wf.trace) >= Len(StepOrder) - 1
    /\ wf.result = "failure" => wf_pc = "returned"

\* the second call of the object has run every step and succeeded
C19_Witness ==
    /\ wf_pc = "returned"
    /\ wf.result = "success"
    /\ wf.trace = StepOrder
    /\ wf_calls = 2

(***************************************************************************)
(* C20.  The retries of the video mode.                                    *)
(***************************************************************************)
\* C20: in one call _force_video_mode is called at most 3 times; no call
\* follows one that returned True; the steps after it are reached only
\* after a call that returned True; and the scene is aborted at this step,
\* before any upload, prompt or generation, exactly when 3 calls have
\* returned False.
C20_BoundedVideoModeRetry ==
    LET n == Len(wf.video_mode) IN
    /\ n <= 3
    /\ \A k \in 1..(n - 1) : ~wf.video_mode[k]
    /\ wf_pc = "video_mode" => n < 3
    /\ InTrace("select_asset") => (n >= 1 /\ wf.video_mode[n])
    /\ AbortedAt("video_mode") <=>
          (n = 3 /\ \A k \in 1..n : ~wf.video_mode[k])
    /\ AbortedAt("video_mode") =>
          /\ ~InTrace("upload")
          /\ ~InTrace("prompt")
          /\ ~InTrace("generate")

\* a scene has been aborted after three failed calls
C20_Witness ==
    /\ AbortedAt("video_mode")
    /\ Len(wf.video_mode) = 3
    /\ wf.trace = <<"health", "video_mode">>

(***************************************************************************)
(* C21.  The steps whose failure is only logged.                           *)
(***************************************************************************)
BestEffortSteps == {"select_asset", "aspect", "duration", "concat"}

\* C21 as stated: no call of the workflow returns False right after the
\* upload-surface step, the aspect-ratio step, the duration step or the
\* concatenation, whatever these steps return or raise: a call whose
\* health check, video mode, upload, prompt, generation and wait succeed
\* returns True.
C21_BestEffortStepsNeverAbort ==
    \A step \in BestEffortSteps : ~AbortedAt(step)

(***************************************************************************)
(* C30.  The outro of the last scene.                                      *)
(***************************************************************************)
\* C30 as stated: when create_concatenated_videos has run for the last
\* scene of the batch with an outro clip in one of the searched directories
\* (and a working media library), {scene_id}_final.mp4 has been written,
\* also when the scene is the first one of the batch as well.
C30_FinalProducedForLastScene ==
    (/\ InTrace("concat")
     /\ wf.scene.is_final_scene
     /\ wf.clips.media
     /\ wf.clips.outro) => "final" \in wf.concatenated

(***************************************************************************)
(* C22.  The optimism of click_generate_button.                            *)
(***************************************************************************)
\* C22 as stated: a call that located the control and issued a click
\* without raising, the primary one or the script one, returns True, even
\* when no start signal was observed; and a call returns False only when
\* the control was not found or both the primary click and the script
\* click raised.
C22_SuccessWheneverClickIssued ==
    gb_pc = "returned" =>
       /\ (gb.found /\ "issued" \in {gb.primary, gb.script}) =>
             gb.result = "success"
       /\ gb.result = "failure" =>
             (~gb.found \/ (gb.primary = "raised" /\ gb.script = "raised"))

(***************************************************************************)
(* C23.  An error indicator during the wait.                               *)
(***************************************************************************)
\* C23 as stated: at a poll that finds an error indicator on the page,
\* whatever else the page shows, no download is attempted and the poll goes
\* nowhere but to the error lookup and the return of False: neither to the
\* progress lookup nor to a return of True.
C23_ErrorAbortsWithoutDownload ==
    (wt.phase = "loop" /\ wt.page.error) =>
        /\ ~wt.attempted
        /\ wt_pc \in {"error_check", "returned"}
        /\ wt.result # "success"

(***************************************************************************)
(* C24.  The wait terminates.                                              *)
(***************************************************************************)
\* the counters of the three loops stay within their limits, the polling
\* counter has advanced by check_interval for every round that has ended,
\* and False is returned only on an error indicator or after the one
\* search that follows the loop
PollsBounded ==
    /\ wt.elapsed_time = wt.polls * check_interval
    /\ wt.polls <= max_wait_time \div check_interval
    /\ wt.waited <= max_wait_4k
    /\ wt.elapsed <= download_timeout
    /\ wt.final_searches <= 1
    /\ (wt.phase = "final") <=> (wt.final_searches = 1)
    /\ (wt_pc = "returned" /\ wt.result = "failure") =>
          (wt.page.error \/ wt.final_searches = 1)

\* C24: every call of wait_for_generation_and_download ends: each round of
\* the polling loop that does not return, on the normal path and on the
\* exception path alike, advances elapsed_time by check_interval, so there
\* are at most max_wait_time / check_interval rounds; one search follows
\* the loop before False is returned; and the 4K wait loop and the download
\* wait loop never pass their own limits.
C24_WaitTerminates == []PollsBounded /\ <>(wt_pc = "returned")

\* the polls ran out, the one final search was made, and False was returned
C24_Witness ==
    /\ wt_pc = "returned"
    /\ wt.result = "failure"
    /\ wt.polls = max_wait_time \div check_interval
    /\ wt.final_searches = 1

C26_ReadyControlPreferred ==
    LET buttons == AllDownloadButtons(dc_controls, FALSE) IN
    (dc_pc = "clicked" /\ dc_clicked # 0 /\ ~dc_listing_fails) =>
        /\ (\E k, h \in 1..Len(dc_controls) :
               dc_controls[k].saved /\ ~dc_controls[h].saved) =>
              dc_controls[dc_clicked].saved
        /\ (Len(buttons) >= 2 /\ dc_upscale_4k) => dc_clicked = buttons[2]
        /\ (Len(buttons) >= 2 /\ ~dc_upscale_4k) => dc_clicked # buttons[2]

(***************************************************************************)
(* C27.  The order of the recovery.                                        *)
(***************************************************************************)
RecoverySteps == <<"refresh", "check", "navigate", "check">>

\* C27: recover_session reloads the page and checks the health; it goes on
\* to the navigation to the dashboard and a second check only after an
\* unhealthy first check; it returns True exactly at the first healthy
\* check, and False exactly when an exception reached it or both checks
\* were unhealthy; its steps are a reload, a navigation and health checks,
\* never a login.
C27_RecoverOrder ==
    ss.op = "recover" =>
        LET n == Len(ss.checks) IN
        /\ Len(ss.trace) <= Len(RecoverySteps)
        /\ \A k \in 1..Len(ss.trace) : ss.trace[k] = RecoverySteps[k]
        /\ \A k \in 1..(n - 1) : ~ss.checks[k].healthy
        /\ ss.result = "recovered" <=> (n >= 1 /\ ss.checks[n].healthy)
        /\ ss.result = "recovered" =>
              (ss_pc = "returned" /\ ss.trace[Len(ss.trace)] = "check")
        /\ ss.result = "needs_login" <=>
              /\ ss_pc = "returned"
              /\ \/ ss.raised
                 \/ (n = 2 /\ ~ss.checks[1].healthy /\ ~ss.checks[2].healthy)
        /\ is_logged_in = FALSE

\* the reload did not help, the navigation to the dashboard did
C27_Witness ==
    /\ ss.op = "recover"
    /\ ss_pc = "returned"
    /\ ss.result = "recovered"
    /\ ss.trace = RecoverySteps
    /\ ~ss.checks[1].healthy

(***************************************************************************)
(* C28.  The cases of the health check.                                    *)
(***************************************************************************)
\* C28: a call of check_session_health in which nothing raises returns
\* False without navigating when the URL contains "login" in any case of
\* its letters; else True without navigating when a logged-in indicator is
\* found; else it navigates once to the dashboard and returns True exactly
\* when the URL does not contain "login" afterwards, which is when the site
\* still accepts the session; a call in which something raises returns
\* False; and no call navigates more than once.
C28_HealthCheckCases ==
    \A k \in 1..Len(ss.checks) :
        LET c == ss.checks[k]
            on_login == Contains(login_pattern, Lower(c.url_before))
        IN /\ c.raised => ~c.healthy
           /\ c.navigations <= 1
           /\ (~c.raised /\ on_login) => (~c.healthy /\ c.navigations = 0)
           /\ (~c.raised /\ ~on_login /\ c.indicators) =>
                 (c.healthy /\ c.navigations = 0)
           /\ (~c.raised /\ ~on_login /\ ~c.indicators) =>
                 /\ c.navigations = 1
                 /\ c.healthy <=>
                       ~Contains(login_pattern, Lower(c.url_after))
                 /\ c.healthy <=> browser.authenticated

\* a check on its own found no indicator, navigated and found the session
\* accepted
C28_Witness ==
    /\ ss.op = "check"
    /\ ss_pc = "returned"
    /\ ss.result = "healthy"
    /\ ss.checks[1].navigations = 1
    /\ ~ss.checks[1].indicators

(***************************************************************************)
(* C29.  The verification of the motion prompt.                            *)
(***************************************************************************)
\* C29: a call of enter_motion_prompt that has returned compared the field
\* with the motion description once, after send_keys, ignoring the case of
\* the letters; it applied the script exactly once when the field did not
\* contain the description and not at all when it did, and did not compare
\* again afterwards; and it returned False exactly when the field was not
\* found or a driver call raised.
C29_VerifyThenFallbackOnce ==
    pr_pc = "returned" =>
        LET contained == Contains(Lower(pr.motion_description),
                                  Lower(pr.entered_text))
        IN /\ pr.result = "failure" <=> (~pr.found \/ pr.raised)
           /\ pr.verified <= 1
           /\ pr.scripts <= 1
           /\ pr.result = "success" =>
                 /\ pr.verified = 1
                 /\ pr.scripts = IF contained THEN 0 ELSE 1
           /\ pr.scripts = 1 => (pr.verified = 1 /\ ~contained)

\* the field held the description in other letters' case, and no script
\* was applied
C29_CaseWitness ==
    /\ pr_pc = "returned"
    /\ pr.result = "success"
    /\ pr.scripts = 0
    /\ pr.motion_description # <<>>
    /\ ~Contains(pr.motion_description, pr.entered_text)

\* the field did not hold the description, and the script was applied once
C29_Witness ==
    /\ pr_pc = "returned"
    /\ pr.result = "success"
    /\ pr.scripts = 1

\* the places of scene_id s in the derived list
PlacesOf(s) == {k \in 1..Len(processable_scenes) : IdAt(k) = s}

\* the scene ids with an outcome in the report
ReportedIds == ToSet(results.completed) \cup FailedIds \cup ToSet(results.skipped)

\* C31: within one run the work items are taken up in job order, one at a
\* time, and the workflow is called at most once per scene_id: the calls of
\* the workflow follow the order of the derived list without repetition,
\* none is for a work item beyond the one the loop stands at, and while the
\* workflow of one work item runs every earlier work item has its outcome in
\* the report.
C31_JobOrderOnceEach ==
    pc \in InRun =>
        /\ \A a, b \in 1..Len(attempted) :
              a < b => \A ka \in PlacesOf(attempted[a].scene),
                          kb \in PlacesOf(attempted[b].scene) : ka < kb
        /\ \A a \in 1..Len(attempted) :
              /\ PlacesOf(attempted[a].scene) # {}
              /\ \A k \in PlacesOf(attempted[a].scene) : Visited(k)
        /\ pc = "process" =>
              /\ \A k \in 1..idx : IdAt(k) \in ReportedIds
              /\ \A a \in 1..Len(attempted) : attempted[a].scene # IdAt(idx + 1)

\* the first work item failed in its workflow, its outcome is in the report,
\* and the workflow of the second one is running
C31_Witness ==
    /\ pc = "process"
    /\ idx = 1
    /\ Len(attempted) = 1
    /\ attempted[1].scene = IdAt(1)
    /\ ~attempted[1].success
    /\ IdAt(1) \in FailedIds

\* C32: the progress record is not guarded against a second run: a save
\* writes the lists of the saving process only, so whatever progress.json
\* holds lists as completed nothing but what its writer loaded at its start
\* or completed itself, whatever the other process has persisted since.
C32_SaveWritesOwnListsOnly ==
    cc_file.kind = "json" =>
        /\ cc_writer \in RunIds
        /\ ToSet(cc_file.doc.completed) \subseteq
               ToSet(cc_run[cc_writer].loaded.completed)
                   \cup cc_run[cc_writer].own

\* a lost update: process p completed a scene and persisted it, and after
\* the next save of the other process, which had loaded the record before,
\* progress.json does not list that scene as completed
C32_Witness ==
    /\ cc_file.kind = "json"
    /\ \E p \in RunIds, s \in DOMAIN cc_dir :
          /\ cc_writer \in RunIds \ {p}
          /\ s \in cc_run[p].own
          /\ s \in cc_saved[p]
          /\ InList(s, cc_run[p].completed_scenes)
          /\ ~InList(s, cc_run[cc_writer].loaded.completed)
          /\ ~InList(s, cc_file.doc.completed)

\* C33: _determine_video_duration returns 5 for every event scene id
\* (scene_{i}_event_{j}), whatever narration exists for scene index i, as
\* the first two cases of test_duration_selection_logic expect.
C33_EventScenesGetFive ==
    (vd_pc = "returned" /\ vd_scene_id \in {Spelled(id) : id \in EventSceneIds})
        => vd_result = 5

\* C40: _determine_video_duration never raises and returns 5 or 10 on every
\* path: for ids with and without a parsable index, a narration of any
\* length, no narration file, a file whose length cannot be read, and an
\* exception inside the function.
C40_FiveOrTenNeverRaises ==
    /\ vd_pc # "raised"
    /\ vd_pc = "returned" => vd_result \in {5, 10}

\* the function has returned after an exception in the search for an id
\* with an index
C40_Witness ==
    /\ vd_pc = "returned"
    /\ vd_raises
    /\ vd_scene_index # NoneIdx
    /\ vd_result = 5

\* the function has returned for an id without an index
C40_NoIndexWitness ==
    /\ vd_pc = "returned"
    /\ vd_scene_index = NoneIdx
    /\ vd_scene_id = Spelled(<<"scene_", "x">>)
    /\ vd_result = 5

\* the id the code forms for a scene index and an event index
IdOf(item) == IF item.event_index = NoneIdx THEN SceneId(item.scene_index)
              ELSE EventId(item.scene_index, item.event_index)

\* job order: by scene index, then by event index
Precedes(a, b) ==
    \/ a.scene_index < b.scene_index
    \/ /\ a.scene_index = b.scene_index
       /\ a.event_index < b.event_index

\* C34: the scene ids of the derived list are pairwise distinct as texts and
\* appear in job order: each item carries the id of its scene index and
\* event index, and an earlier item precedes a later one by scene index,
\* then by event index.
C34_DistinctIdsInJobOrder ==
    /\ \A k \in 1..Len(dv_items) : dv_items[k].scene_id = IdOf(dv_items[k])
    /\ \A a, b \in 1..Len(dv_items) :
          a < b => /\ Spelled(dv_items[a].scene_id) # Spelled(dv_items[b].scene_id)
                   /\ Precedes(dv_items[a], dv_items[b])

\* a job of two scenes has been enumerated: the first with three events, the
\* second a regular scene
C34_Witness ==
    /\ dv_i = Len(dv_scenes)
    /\ Len(dv_scenes) = 2
    /\ dv_scenes[1].events = 3
    /\ dv_scenes[2].events = 0
    /\ Len(dv_items) = 4
    /\ dv_items[4].scene_id = SceneId(1)

\* C35: at every point of a run the report lists completed, failed and
\* skipped are pairwise disjoint and none lists a scene twice; when the run
\* returns, every processable scene id is in exactly one of them, so their
\* sizes sum to the number of processable scenes.
C35_ReportPartition ==
    pc \in InRun =>
        /\ ToSet(results.completed) \cap FailedIds = {}
        /\ ToSet(results.completed) \cap ToSet(results.skipped) = {}
        /\ FailedIds \cap ToSet(results.skipped) = {}
        /\ Cardinality(ToSet(results.completed)) = Len(results.completed)
        /\ Cardinality(FailedIds) = Len(results.failed)
        /\ Cardinality(ToSet(results.skipped)) = Len(results.skipped)
        /\ pc = "returned" =>
              /\ ReportedIds = SceneIds
              /\ Len(results.completed) + Len(results.failed)
                    + Len(results.skipped) = Len(processable_scenes)
              /\ results.total_scenes = Len(processable_scenes)

\* a run has returned with one scene skipped and one failed
C35_Witness ==
    /\ pc = "returned"
    /\ Len(processable_scenes) = 2
    /\ Len(results.skipped) = 1
    /\ Len(results.failed) = 1
    /\ results.completed = <<>>

\* C36: from an absent progress file on, through any sequence of runs with
\* output files deleted or truncated between them, every record that
\* progress.json holds lists no scene twice as completed, lists no scene as
\* both completed and failed, and has a last_processed that is one of its
\* completed or failed scenes.
C36_PersistedRecordConsistent ==
    progress_file.kind = "json" =>
        LET doc == progress_file.doc IN
        /\ Cardinality(ToSet(doc.completed)) = Len(doc.completed)
        /\ ToSet(doc.completed) \cap ToSet(doc.failed) = {}
        /\ doc.last_processed \in ToSet(doc.completed) \cup ToSet(doc.failed)

\* the second run found the output file of a scene the record listed as
\* completed missing or too small, processed the scene again with success
\* and saved the record
C36_Witness ==
    /\ run_no = 2
    /\ pc = "loop"
    /\ idx >= 1
    /\ progress_file.kind = "json"
    /\ InList(IdAt(1), progress_data.completed)
    /\ ~FileIsValid(start_dir[IdAt(1)])
    /\ InList(IdAt(1), results.completed)
    /\ InList(IdAt(1), progress_file.doc.completed)
    /\ progress_file.doc.last_processed = IdAt(idx)

\* the loop stands at a work item that it honours as completed
AtHonouredScene ==
    /\ pc = "loop"
    /\ idx < Len(processable_scenes)
    /\ SkipScene(CurrentScene.scene_id, completed_scenes,
                 output_dir[CurrentScene.scene_id])

\* C37: the iteration of a scene honoured as completed has no effect beyond
\* the report: the workflow (session check and UI steps) is not called, no
\* inter-scene delay is made, progress.json and the output directory are
\* left as they are, the two lists in memory keep their value, and the loop
\* goes on with the next work item.
C37_SkipHasNoEffect ==
    [][(AtHonouredScene /\ pc' # "crashed") =>
          /\ attempted' = attempted
          /\ delays' = delays
          /\ progress_file' = progress_file
          /\ last_written' = last_written
          /\ output_dir' = output_dir
          /\ completed_scenes' = completed_scenes
          /\ failed_scenes' = failed_scenes
          /\ results' = [results EXCEPT
                           !.skipped = Append(@, CurrentScene.scene_id)]
          /\ pc' = "loop"
          /\ idx' = idx + 1]_vars

\* the second run has skipped its first scene and then processed the next
\* one: the only save and no delay are those of the second scene
C37_Witness ==
    /\ run_no = 2
    /\ pc = "loop"
    /\ idx = 2
    /\ results.skipped = <<IdAt(1)>>
    /\ Len(attempted) = 1
    /\ attempted[1].scene = IdAt(2)
    /\ delays = 0
    /\ progress_file.kind = "json"
    /\ progress_file.doc.last_processed = IdAt(2)

\* C38: within one call of click_generate_button the control is clicked at
\* most once: after a primary click that was issued without raising, the
\* script click of the except branch is not attempted.
C38_NoScriptClickAfterPrimaryClick ==
    gb.primary = "issued" => gb.script = "none"

\* C39: the image chosen for a work item belongs to that scene_id: when the
\* lookup ends with an existing image_path, the file is an image of the
\* scene or event of the work item and of no other.
C39_ImageOfTheSameScene ==
    im_pc = "found" => im_path.scene = im_scene_id

====
